---- MODULE Spec2Model ----
(***************************************************************************)
(* Verification model of the zcrawl traversal engine                       *)
(* (src/src/strategies: BaseStrategy, BFSCrawlingStrategy,                 *)
(* DFSCrawlingStrategy) and of the run record it fills                     *)
(* (src/src/models/CrawlingResult.py).                                     *)
(*                                                                         *)
(* The engine runs on a cooperative event loop: crawl() executes without   *)
(* interruption between two awaits, and its only await is the call of      *)
(* scraper.scrape() inside _scrape_page.  One action of the model is       *)
(* therefore one such segment: from the call of crawl(), or from the       *)
(* completion of a scrape, up to the next await or to the return.          *)
(***************************************************************************)
EXTENDS Integers, Sequences, FiniteSets, TLC

\* Bounds of the model.
NumUrls == 4
MaxLinks == 2
MaxDepthBound == 2
MaxPagesBound == 4
\* Bounds of the configurations in which crawl() is called a second time.
RerunDepthBound == 1
RerunPagesBound == 3
MaxReruns == 1
\* Bounds of the multi-run coordinator: seeds of one run(), max_concurrent.
MaxSeeds == 3
MaxConcurrent == 2
MaxStops == 2

Urls == 1..NumUrls

\* The navigable_links a page can carry: every list of at most MaxLinks URLs,
\* repeated links and links to the page itself included.
LinkLists == UNION {[1..n -> Urls] : n \in 0..MaxLinks}

\* The URLs a configured admission filter rejects (those ending in ".pdf",
\* say); every other URL is admitted.
BlockedUrls == {NumUrls}

\* web[u] is {} while u's page is unknown and {links} once it was served.
Unknown == {}
NoCur == <<>>
NoResult == "none"

VARIABLES
    strategy,        \* "BFS" | "DFS": the concrete strategy class
    max_depth,       \* BaseStrategy.max_depth
    max_pages,       \* BaseStrategy.max_pages
    url_filter,      \* BaseStrategy.url_filter: the URLs the filter admits
    visited_urls,    \* BaseStrategy._visited_urls
    failed_urls,     \* BaseStrategy._failed_urls
    current_depth,   \* BaseStrategy._current_depth
    pages_crawled,   \* BaseStrategy._pages_crawled
    is_running,      \* BaseStrategy._is_running
    pc,              \* position of crawl(): "idle" | "fetch" | "done" | "cancelled"
    start_url,       \* the argument crawl() is called with
    queue,           \* BFS: deque of <<url, depth>>
    queued_urls,     \* BFS: set of URLs in the queue
    stack,           \* DFS: suspended _dfs_crawl frames, innermost last
    cur,             \* <<url, depth>> of the scrape being awaited
    result,          \* the CrawlingResult of the run
    web,             \* the link graph served by the scraper, as far as fetched
    attempts,        \* history: completed scrapes [url, depth, ok]
    marks,           \* history: number of mark_completed() calls
    stop_called,     \* history: stop() was called during the run
    runs,            \* caller: number of crawl() calls that are over
    first_run,       \* caller: what the first crawl() call returned
    max_concurrent,  \* AsyncManyRunner.max_concurrent
    progress_callback, \* AsyncManyRunner._progress_callback
    many_is_started, \* AsyncManyRunner._is_started
    many_runners,    \* AsyncManyRunner._runners
    many_results,    \* AsyncManyRunner._results
    semaphore,       \* AsyncManyRunner._semaphore: its free slots
    start_urls,      \* the argument of AsyncManyRunner.run()
    run_pc,          \* position of run(): "idle"|"gather"|"returned"|"raised"
    gathered,        \* per seed, what its _run_single_crawl task ended with
    factory_raises,  \* per seed: strategy_factory() or scraper_factory() raises
    traversal_raises, \* per seed: its engine or fetcher raises when it runs
    callback_calls,  \* history: the lists the progress callback was given
    stop_outcomes,   \* history: how each AsyncManyRunner.stop() call ended
    \* BrowserManager (src/browser/browser_manager.py) and its handles
    pool_is_running, \* BrowserManager._is_running
    instances,       \* _instances: name -> handle
    instance_configs,     \* _instance_configs: name -> config
    instance_created_at,  \* _instance_created_at: name -> time
    instance_last_used,   \* _instance_last_used: name -> time
    inst_started,    \* per handle: BrowserInstance._is_started
    inst_open,       \* per handle: browsers launched and not yet closed
    handles,         \* number of BrowserInstance objects constructed so far
    now,             \* datetime.now(), in units of the idle threshold
    procs,           \* per task: the pool operation it is in, and where
    sweep_todo,      \* instances_to_remove of the sweep pass in progress
    sweep_listed,    \* history: the handles that pass listed when it began
    inst_name,       \* history: per handle, the name it was created for
    stop_calls,      \* history: the handles stop() was called on
    ops_begun,       \* number of pool operations called so far
    last_caller,     \* history: the task that called the latest of them
    timely_gets,     \* history: <<handle, time>> of each get_instance() that
                     \* came before the handle's idle threshold elapsed
    \* One AsyncRunner (src/runner/AsyncRunner.py) with the scraper it was given
    runner_is_started,   \* AsyncRunner._is_started
    scraper_is_started,  \* BaseScraper._is_started
    browser_is_started,  \* BrowserInstance._is_started of the scraper's browser
    context,         \* BaseScraper._context is set
    current_page,    \* BaseScraper._current_page is set
    browsers_open,   \* browsers the scraper launched and has not closed
    launches,        \* history: browsers the scraper launched
    teardowns,       \* history: times BaseScraper.stop() ran its teardown
    runner_procs,    \* per task: the AsyncRunner call it is in, and where
    runner_ops,      \* number of start() and stop() calls made so far
    runner_caller,   \* history: the task that made the latest of them
    stop_returned,   \* history: stop() returned and start() was not called since

    \* Filter objects (src/filters/base.py, src/filters/chain.py)
    filter_objs,     \* every Filter object: its operator and its filters list
    leaf_accepts,    \* per leaf filter: the inputs its run() returns True for
    chain_outcome,   \* what the latest FilterChain call returned or raised
    made,            \* history: the operation that built each object
    mutations,       \* number of add_filter and remove_filter calls so far

    \* One call of BFSCrawlingStrategy._bfs_level_crawl
    level_urls,      \* its argument urls
    level_depth,     \* its argument depth
    level_pc,        \* where it is: "idle" | "gather" | "returned"
    level_tasks,     \* the tasks it gathers: pending or done, with the links
    next_level_urls  \* what it returned

vars == <<strategy, max_depth, max_pages, url_filter, visited_urls, failed_urls,
          current_depth, pages_crawled, is_running, pc, start_url, queue,
          queued_urls, stack, cur, result, web, attempts, marks, stop_called,
          runs, first_run, max_concurrent, progress_callback,
          many_is_started, many_runners, many_results, semaphore, start_urls,
          run_pc, gathered, factory_raises, traversal_raises, callback_calls,
          stop_outcomes, pool_is_running, instances, instance_configs,
          instance_created_at, instance_last_used, inst_started, inst_open,
          handles, now, procs, sweep_todo, sweep_listed, inst_name, stop_calls,
          ops_begun, last_caller, timely_gets, runner_is_started,
          scraper_is_started, browser_is_started, context, current_page,
          browsers_open, launches, teardowns, runner_procs, runner_ops,
          runner_caller, stop_returned, filter_objs, leaf_accepts,
          chain_outcome, made, mutations, level_urls, level_depth, level_pc,
          level_tasks, next_level_urls>>

config == <<strategy, max_depth, max_pages, url_filter>>

caller == <<runs, first_run>>

many == <<max_concurrent, progress_callback, many_is_started, many_runners,
          many_results, semaphore, start_urls, run_pc, gathered,
          factory_raises, traversal_raises, callback_calls, stop_outcomes>>

runner == <<runner_is_started, scraper_is_started, browser_is_started,
            context, current_page, browsers_open, launches, teardowns,
            runner_procs, runner_ops, runner_caller, stop_returned>>

chains == <<filter_objs, leaf_accepts, chain_outcome, made, mutations>>

level == <<level_urls, level_depth, level_pc, level_tasks, next_level_urls>>

\* The components that stand beside the engine, the multi-run coordinator
\* and the browser pool.
beyond == <<runner, chains, level>>

pool == <<pool_is_running, instances, instance_configs, instance_created_at,
          instance_last_used, inst_started, inst_open, handles, now, procs,
          sweep_todo, sweep_listed, inst_name, stop_calls, ops_begun,
          last_caller, timely_gets>>

----------------------------------------------------------------------------
\* Helpers

Max(a, b) == IF a >= b THEN a ELSE b

Front(s) == SubSeq(s, 1, Len(s) - 1)

Range(s) == {s[i] : i \in DOMAIN s}

NoDuplicates(s) == \A i, j \in DOMAIN s : i # j => s[i] # s[j]

----------------------------------------------------------------------------
\* CrawlingResult (src/src/models/CrawlingResult.py)

\* BaseStrategy._create_crawling_result: the lists are copies of the engine's
\* sets taken at this moment.
RECURSIVE SetToSeq(_)
SetToSeq(S) ==
    IF S = {} THEN <<>>
    ELSE LET x == CHOOSE y \in S : \A z \in S : y <= z
         IN <<x>> \o SetToSeq(S \ {x})

create_crawling_result(url, name, visited, failed, depth) ==
    [start_url     |-> url,
     max_depth     |-> depth,
     strategy      |-> name,
     scraped_pages |-> <<>>,
     visited_urls  |-> SetToSeq(visited),
     failed_urls   |-> SetToSeq(failed),
     total_pages   |-> 0,
     end_time      |-> "None"]

add_scraped_page(r, url) ==
    [r EXCEPT !.scraped_pages = Append(@, url),
              !.visited_urls  = Append(@, url),
              !.total_pages   = Len(r.scraped_pages) + 1]

add_failed_url(r, url) == [r EXCEPT !.failed_urls = Append(@, url)]

mark_completed(r) == [r EXCEPT !.end_time = "set"]

\* success_rate as the fraction <<numerator, denominator>>; 0.0 is <<0, 1>>.
success_rate(r) ==
    LET total_attempts == Len(r.visited_urls) + Len(r.failed_urls)
    IN IF total_attempts = 0 THEN <<0, 1>>
       ELSE <<Len(r.visited_urls), total_attempts>>

SameFraction(f, g) == f[1] * g[2] = g[1] * f[2]

----------------------------------------------------------------------------
\* BaseStrategy (src/src/strategies/BaseStrategy.py)

should_continue_crawling_off_by_one(pages) == ~(pages > max_pages)

should_continue_crawling(pages) == ~(pages >= max_pages)

\* _extract_links: the page's links that are not visited, in page order.
RECURSIVE extract_links(_, _)
extract_links(links, visited) ==
    IF links = <<>> THEN <<>>
    ELSE IF Head(links) \notin visited
         THEN <<Head(links)>> \o extract_links(Tail(links), visited)
         ELSE extract_links(Tail(links), visited)

\* _reset_state: the internal state a crawl() starts from.
reset_state_keeping_visited ==
    [visited_urls  |-> visited_urls,
     failed_urls   |-> {},
     current_depth |-> 0,
     pages_crawled |-> 0,
     is_running    |-> FALSE]

reset_state ==
    [visited_urls  |-> {},
     failed_urls   |-> {},
     current_depth |-> 0,
     pages_crawled |-> 0,
     is_running    |-> FALSE]

\* _scrape_page, the except branch: the URL joins the failed set.
record_failure_dropped(url) == failed_urls

record_failure(url) == failed_urls \cup {url}

----------------------------------------------------------------------------
\* The scraper: a successful scrape of url returns the page's links.  The
\* link graph is fixed: a URL scraped again returns the links it returned
\* the first time.
Serves(url, links) == web[url] = Unknown \/ web[url] = {links}

----------------------------------------------------------------------------
\* BFSCrawlingStrategy (src/src/strategies/BFSCrawlingStrategy.py)

bfs_depth_limit_reached_late(depth) == depth > max_depth

bfs_depth_limit_reached_early(depth) == depth + 1 >= max_depth

bfs_depth_limit_reached(depth) == depth >= max_depth

\* Line 103: the test that guards queue.append.
should_enqueue_ignoring_queued(link, visited, qs) == link \notin visited

should_enqueue(link, visited, qs) == link \notin visited /\ link \notin qs

\* Line 79: queued_urls.discard(url).
discard_queued_skipped(qs, url) == qs

discard_queued(qs, url) == qs \ {url}

\* Line 104: queue.append((link, depth + 1)).
queue_append_left(q, link, depth) == <<<<link, depth + 1>>>> \o q

queue_append(q, link, depth) == Append(q, <<link, depth + 1>>)

\* Lines 101-105: the for loop over the extracted links.
RECURSIVE enqueue_links(_, _, _, _, _)
enqueue_links(links, depth, q, qs, visited) ==
    IF links = <<>> THEN [queue |-> q, queued_urls |-> qs]
    ELSE LET link == Head(links)
         IN IF should_enqueue(link, visited, qs)
            THEN enqueue_links(Tail(links), depth,
                               queue_append(q, link, depth),
                               qs \cup {link}, visited)
            ELSE enqueue_links(Tail(links), depth, q, qs, visited)

\* Lines 76-85 and 107-113: the while test; either the next candidate is
\* dequeued and its scrape awaited, or the loop ends and crawl() returns.
BfsLoop(q, qs, pages, running, depth, res) ==
    IF q # <<>> /\ should_continue_crawling(pages) /\ running
    THEN /\ queue' = Tail(q)
         /\ queued_urls' = discard_queued(qs, Head(q)[1])
         /\ current_depth' = Max(depth, Head(q)[2])
         /\ cur' = Head(q)
         /\ pc' = "fetch"
         /\ result' = res
         /\ is_running' = running
         /\ marks' = marks
    ELSE /\ queue' = q
         /\ queued_urls' = qs
         /\ current_depth' = depth
         /\ cur' = NoCur
         /\ pc' = "done"
         /\ result' = mark_completed(res)
         /\ is_running' = FALSE
         /\ marks' = marks + 1

\* crawl(start_url), lines 61-85: up to the first await.
BfsCrawl ==
    /\ pc = "idle"
    /\ strategy = "BFS"
    /\ LET st == reset_state
       IN /\ visited_urls' = st.visited_urls
          /\ failed_urls' = st.failed_urls
          /\ pages_crawled' = st.pages_crawled
          /\ BfsLoop(<<<<start_url, 0>>>>, {start_url}, st.pages_crawled,
                     TRUE, st.current_depth,
                     create_crawling_result(start_url, "BFS", st.visited_urls,
                                            st.failed_urls, st.current_depth))
    /\ UNCHANGED <<config, caller, many, pool, beyond, start_url, stack, web, attempts, stop_called>>

\* The awaited scrape returns a page: lines 84-105, then the loop again.
BfsScrapeOk ==
    /\ pc = "fetch"
    /\ strategy = "BFS"
    /\ \E links \in LinkLists :
        /\ Serves(cur[1], links)
        /\ web' = [web EXCEPT ![cur[1]] = {links}]
        /\ LET url == cur[1]
               depth == cur[2]
               visited == visited_urls \cup {url}
               pages == pages_crawled + 1
               res == add_scraped_page(result, url)
               next == IF bfs_depth_limit_reached(depth)
                       THEN [queue |-> queue, queued_urls |-> queued_urls]
                       ELSE enqueue_links(extract_links(links, visited), depth,
                                          queue, queued_urls, visited)
           IN /\ visited_urls' = visited
              /\ pages_crawled' = pages
              /\ attempts' = Append(attempts,
                                    [url |-> url, depth |-> depth, ok |-> TRUE])
              /\ BfsLoop(next.queue, next.queued_urls, pages, is_running,
                         current_depth, res)
    /\ UNCHANGED <<config, caller, many, pool, beyond, start_url, failed_urls, stack, stop_called>>

\* The awaited scrape raises: _scrape_page returns None, line 86 continues.
BfsScrapeFail ==
    /\ pc = "fetch"
    /\ strategy = "BFS"
    /\ failed_urls' = record_failure(cur[1])
    /\ attempts' = Append(attempts,
                          [url |-> cur[1], depth |-> cur[2], ok |-> FALSE])
    /\ BfsLoop(queue, queued_urls, pages_crawled, is_running, current_depth,
               result)
    /\ UNCHANGED <<config, caller, many, pool, beyond, start_url, visited_urls, pages_crawled, stack, web,
                   stop_called>>

----------------------------------------------------------------------------
\* DFSCrawlingStrategy (src/src/strategies/DFSCrawlingStrategy.py)
\* A frame of the stack is a _dfs_crawl call suspended in its for loop:
\* the links it still has to descend into and the depth of its own page.

dfs_depth_limit_reached_late(depth) == depth > max_depth

dfs_depth_limit_reached(depth) == depth >= max_depth

\* Line 89: the test at the entry of _dfs_crawl.
dfs_entry_ok(pages, running) == should_continue_crawling(pages) /\ running

\* Line 114: the test at the head of the for loop.
dfs_loop_break(pages, running) == ~running \/ ~should_continue_crawling(pages)

\* Lines 113-117 and the returns: run the innermost for loop on, returning to
\* the caller when it ends or breaks, until a _dfs_crawl call reaches its
\* await (cur is the candidate) or the outermost call returns (cur is NoCur).
RECURSIVE dfs_resume(_, _, _)
dfs_resume(stk, pages, running) ==
    IF stk = <<>> THEN [stack |-> <<>>, cur |-> NoCur]
    ELSE LET top == stk[Len(stk)]
             rest == Front(stk) \o <<[top EXCEPT !.links = Tail(top.links)]>>
         IN IF top.links = <<>> THEN dfs_resume(Front(stk), pages, running)
            ELSE IF dfs_loop_break(pages, running)
                 THEN dfs_resume(Front(stk), pages, running)
            ELSE IF ~dfs_entry_ok(pages, running)
                 THEN dfs_resume(rest, pages, running)
            ELSE [stack |-> rest, cur |-> <<Head(top.links), top.depth + 1>>]

\* The state after dfs_resume: a scrape is awaited, or crawl() (lines 71-77)
\* marks the result completed and returns.
DfsContinue(stk, pages, running, depth, res) ==
    LET next == dfs_resume(stk, pages, running)
    IN IF next.cur # NoCur
       THEN /\ stack' = next.stack
            /\ cur' = next.cur
            /\ current_depth' = Max(depth, next.cur[2])
            /\ pc' = "fetch"
            /\ result' = res
            /\ is_running' = running
            /\ marks' = marks
       ELSE /\ stack' = <<>>
            /\ cur' = NoCur
            /\ current_depth' = depth
            /\ pc' = "done"
            /\ result' = mark_completed(res)
            /\ is_running' = FALSE
            /\ marks' = marks + 1

\* crawl(start_url), lines 59-69 and _dfs_crawl lines 88-96: up to the first
\* await, or to the return when the entry test of _dfs_crawl fails.
DfsCrawl ==
    /\ pc = "idle"
    /\ strategy = "DFS"
    /\ LET st == reset_state
           res == create_crawling_result(start_url, "DFS", st.visited_urls,
                                         st.failed_urls, st.current_depth)
       IN /\ visited_urls' = st.visited_urls
          /\ failed_urls' = st.failed_urls
          /\ pages_crawled' = st.pages_crawled
          /\ IF dfs_entry_ok(st.pages_crawled, TRUE)
             THEN /\ stack' = <<>>
                  /\ cur' = <<start_url, 0>>
                  /\ current_depth' = Max(st.current_depth, 0)
                  /\ pc' = "fetch"
                  /\ result' = res
                  /\ is_running' = TRUE
                  /\ marks' = marks
             ELSE DfsContinue(<<>>, st.pages_crawled, TRUE, st.current_depth,
                              res)
    /\ UNCHANGED <<config, caller, many, pool, beyond, start_url, queue, queued_urls, web, attempts,
                   stop_called>>

\* The awaited scrape returns a page: lines 97-117.
DfsScrapeOk ==
    /\ pc = "fetch"
    /\ strategy = "DFS"
    /\ \E links \in LinkLists :
        /\ Serves(cur[1], links)
        /\ web' = [web EXCEPT ![cur[1]] = {links}]
        /\ LET url == cur[1]
               depth == cur[2]
               visited == visited_urls \cup {url}
               pages == pages_crawled + 1
               res == add_scraped_page(result, url)
               stk == IF dfs_depth_limit_reached(depth)
                      THEN stack
                      ELSE Append(stack,
                                  [links |-> extract_links(links, visited),
                                   depth |-> depth])
           IN /\ visited_urls' = visited
              /\ pages_crawled' = pages
              /\ attempts' = Append(attempts,
                                    [url |-> url, depth |-> depth, ok |-> TRUE])
              /\ DfsContinue(stk, pages, is_running, current_depth, res)
    /\ UNCHANGED <<config, caller, many, pool, beyond, start_url, failed_urls, queue, queued_urls,
                   stop_called>>

\* The awaited scrape raises: _scrape_page returns None, line 98 returns.
DfsScrapeFail ==
    /\ pc = "fetch"
    /\ strategy = "DFS"
    /\ failed_urls' = record_failure(cur[1])
    /\ attempts' = Append(attempts,
                          [url |-> cur[1], depth |-> cur[2], ok |-> FALSE])
    /\ DfsContinue(stack, pages_crawled, is_running, current_depth, result)
    /\ UNCHANGED <<config, caller, many, pool, beyond, start_url, visited_urls, pages_crawled, queue,
                   queued_urls, web, stop_called>>

----------------------------------------------------------------------------
\* What the environment does while crawl() is suspended in its await.

OkAttempts == {i \in DOMAIN attempts : attempts[i].ok}

FailedAttempts == {i \in DOMAIN attempts : ~attempts[i].ok}

StopWithoutEffect ==
    /\ pc = "fetch"
    /\ is_running
    /\ stop_called' = TRUE
    /\ UNCHANGED <<config, caller, many, pool, beyond, visited_urls, failed_urls, current_depth,
                   pages_crawled, is_running, pc, start_url, queue,
                   queued_urls, stack, cur, result, web, attempts, marks>>

\* BaseStrategy.stop(), called by another task.
Stop ==
    /\ pc = "fetch"
    /\ is_running
    /\ is_running' = FALSE
    /\ stop_called' = TRUE
    /\ UNCHANGED <<config, caller, many, pool, beyond, visited_urls, failed_urls, current_depth,
                   pages_crawled, pc, start_url, queue, queued_urls, stack,
                   cur, result, web, attempts, marks>>

\* The task running crawl() is cancelled: CancelledError is raised at the
\* await.  It is no Exception, so _scrape_page does not catch it, and crawl()
\* has no handler: it leaves crawl() from the await.
Cancel ==
    /\ pc = "fetch"
    /\ pc' = "cancelled"
    /\ UNCHANGED <<config, caller, many, pool, beyond, visited_urls, failed_urls, current_depth,
                   pages_crawled, is_running, start_url, queue, queued_urls,
                   stack, cur, result, web, attempts, marks, stop_called>>

----------------------------------------------------------------------------
\* The engine after __init__ (BaseStrategy.py lines 42-54), for every
\* configuration within the bounds, url_filter apart.
InitEngine ==
    /\ strategy \in {"BFS", "DFS"}
    /\ max_depth \in 0..MaxDepthBound
    /\ max_pages \in 0..MaxPagesBound
    /\ visited_urls = {}
    /\ failed_urls = {}
    /\ current_depth = 0
    /\ pages_crawled = 0
    /\ is_running = FALSE
    /\ pc = "idle"
    /\ start_url \in Urls
    /\ queue = <<>>
    /\ queued_urls = {}
    /\ stack = <<>>
    /\ cur = NoCur
    /\ result = NoResult
    /\ web = [u \in Urls |-> Unknown]
    /\ attempts = <<>>
    /\ marks = 0
    /\ stop_called = FALSE
    /\ runs = 0
    /\ first_run = [pages |-> <<>>, clean |-> FALSE]

\* No multi-run coordinator takes part.
NoManyRunner ==
    /\ max_concurrent = 1
    /\ progress_callback = "none"
    /\ many_is_started = FALSE
    /\ many_runners = <<>>
    /\ many_results = <<>>
    /\ semaphore = 1
    /\ start_urls = <<>>
    /\ run_pc = "idle"
    /\ gathered = <<>>
    /\ factory_raises = <<>>
    /\ traversal_raises = <<>>
    /\ callback_calls = <<>>
    /\ stop_outcomes = <<>>

\* No browser pool takes part.
NoPool ==
    /\ pool_is_running = FALSE
    /\ instances = <<>>
    /\ instance_configs = <<>>
    /\ instance_created_at = <<>>
    /\ instance_last_used = <<>>
    /\ inst_started = <<>>
    /\ inst_open = <<>>
    /\ handles = 0
    /\ now = 0
    /\ procs = <<>>
    /\ sweep_todo = <<>>
    /\ sweep_listed = {}
    /\ inst_name = <<>>
    /\ stop_calls = {}
    /\ ops_begun = 0
    /\ last_caller = 0
    /\ timely_gets = {}

\* No single AsyncRunner is driven from outside.
NoRunner ==
    /\ runner_is_started = FALSE
    /\ scraper_is_started = FALSE
    /\ browser_is_started = FALSE
    /\ context = FALSE
    /\ current_page = FALSE
    /\ browsers_open = 0
    /\ launches = 0
    /\ teardowns = 0
    /\ runner_procs = <<>>
    /\ runner_ops = 0
    /\ runner_caller = 0
    /\ stop_returned = FALSE

\* No filter object exists.
NoChains ==
    /\ filter_objs = <<>>
    /\ made = <<>>
    /\ leaf_accepts = <<>>
    /\ chain_outcome = "none"
    /\ mutations = 0

\* No _bfs_level_crawl is called.
NoLevel ==
    /\ level_urls = <<>>
    /\ level_depth = 0
    /\ level_pc = "idle"
    /\ level_tasks = <<>>
    /\ next_level_urls = <<>>

\* None of the components beside the engine, the multi-run coordinator and
\* the browser pool takes part.
NoBeyond == NoRunner /\ NoChains /\ NoLevel

\* No url_filter is configured: every URL is admitted.
Init == InitEngine /\ url_filter = Urls /\ NoManyRunner /\ NoPool /\ NoBeyond

\* A url_filter is configured that rejects the blocked URLs.
InitFilter ==
    /\ InitEngine /\ url_filter = Urls \ BlockedUrls
    /\ NoManyRunner /\ NoPool /\ NoBeyond

Next ==
    \/ BfsCrawl
    \/ BfsScrapeOk
    \/ BfsScrapeFail
    \/ DfsCrawl
    \/ DfsScrapeOk
    \/ DfsScrapeFail
    \/ Stop
    \/ Cancel

Spec == Init /\ [][Next]_vars

\* The caller of a crawl() that is over (returned, or left by the
\* cancellation) keeps what it returned and is about to call crawl() on the
\* same engine again, with the same start_url and over the same link graph.
\* The engine is left as the call left it; the history of the run starts over.
CallAgain ==
    /\ pc \in {"done", "cancelled"}
    /\ runs < MaxReruns
    /\ runs' = runs + 1
    /\ first_run' = IF runs = 0
                    THEN [pages |-> result.scraped_pages,
                          clean |-> /\ pc = "done"
                                    /\ ~stop_called
                                    /\ FailedAttempts = {}]
                    ELSE first_run
    /\ pc' = "idle"
    /\ attempts' = <<>>
    /\ marks' = 0
    /\ stop_called' = FALSE
    /\ UNCHANGED <<config, many, pool, beyond, visited_urls, failed_urls, current_depth,
                   pages_crawled, is_running, start_url, queue, queued_urls,
                   stack, cur, result, web>>

InitRerun ==
    /\ Init
    /\ max_depth <= RerunDepthBound
    /\ max_pages <= RerunPagesBound

NextRerun ==
    \/ Next
    \/ CallAgain

\* The engine used for more than one crawl().
SpecRerun == InitRerun /\ [][NextRerun]_vars

\* The scrape crawl() awaits comes to an end, with a page or with an error.
FetchHangs == FALSE

FetchCompletes ==
    \/ BfsScrapeOk
    \/ BfsScrapeFail
    \/ DfsScrapeOk
    \/ DfsScrapeFail

\* A crawl() that is called and not cancelled.
NextLive ==
    \/ BfsCrawl
    \/ DfsCrawl
    \/ FetchCompletes
    \/ Stop

\* crawl() is called, the event loop runs it up to its await, and every
\* scrape it awaits terminates.
SpecLive ==
    /\ Init
    /\ [][NextLive]_vars
    /\ WF_vars(BfsCrawl \/ DfsCrawl)
    /\ WF_vars(FetchCompletes)

\* The engine constructed with a url_filter.
SpecFilter == InitFilter /\ [][Next]_vars

----------------------------------------------------------------------------
\* AsyncManyRunner (src/src/runner/AsyncManyRunner.py)
\* run() starts one _run_single_crawl task per seed and awaits them all.
\* The engine variables above take no part: the engines are built by the
\* tasks.  Seeds are named by their index in start_urls.

engine == <<config, caller, visited_urls, failed_urls, current_depth,
            pages_crawled, is_running, pc, start_url, queue, queued_urls,
            stack, cur, result, web, attempts, marks, stop_called>>

SeedLists == UNION {[1..n -> Urls] : n \in 0..MaxSeeds}

\* AsyncRunner.__init__, its signature: the keyword arguments it accepts.
AsyncRunnerParams == {"strategy", "scraper", "browser_config"}

\* _run_single_crawl, lines 173-178: the keyword arguments it passes.
ChildRunnerArgs == {"strategy", "scraper", "browser_config", "auto_start"}

\* What gather(return_exceptions=True) holds for a task that ended with an
\* exception.
Exceptions == {"FactoryError", "TypeError"}

\* run(), lines 118-134: start() finds no runner and sets the flag, the
\* results are reset, the tasks are created and run() awaits gather().
ManyRun ==
    /\ run_pc = "idle"
    /\ many_is_started' = TRUE
    /\ many_results' = <<>>
    /\ gathered' = [i \in DOMAIN start_urls |-> "pending"]
    /\ run_pc' = "gather"
    /\ UNCHANGED <<engine, pool, beyond, max_concurrent, progress_callback, many_runners,
                   semaphore, start_urls, factory_raises, traversal_raises,
                   callback_calls, stop_outcomes>>

\* _run_single_crawl for seed i, lines 167-178: the task takes a free slot
\* of the semaphore, calls the two factories and then AsyncRunner(...,
\* auto_start=False).  A factory that raises, or the TypeError of a keyword
\* argument AsyncRunner.__init__ does not accept, leaves the `async with`
\* block, which gives the slot back, and ends the task.  The task does not
\* await in between.  Lines 180-198 (append to _runners, start, run, stop,
\* remove) follow a constructor call that returns.
ChildCrawl(i) ==
    /\ run_pc = "gather"
    /\ gathered[i] = "pending"
    /\ semaphore > 0
    /\ LET acquired == semaphore - 1
           outcome == IF factory_raises[i] THEN "FactoryError"
                      ELSE IF ~(ChildRunnerArgs \subseteq AsyncRunnerParams)
                           THEN "TypeError"
                      ELSE "constructed"
       IN /\ gathered' = [gathered EXCEPT ![i] = outcome]
          /\ semaphore' = IF outcome \in Exceptions THEN acquired + 1
                          ELSE acquired
    /\ UNCHANGED <<engine, pool, beyond, max_concurrent, progress_callback, many_is_started,
                   many_runners, many_results, start_urls, run_pc,
                   factory_raises, traversal_raises, callback_calls,
                   stop_outcomes>>

\* The tasks that are over: gather() holds their result or exception.
TaskOver ==
    {i \in DOMAIN gathered : gathered[i] \notin {"pending", "constructed"}}

\* Lines 137-141: the results that are no exception, in task order.
RECURSIVE collect_results(_, _)
collect_results(res, i) ==
    IF i > Len(res) THEN <<>>
    ELSE IF res[i] \in Exceptions THEN collect_results(res, i + 1)
    ELSE <<i>> \o collect_results(res, i + 1)

\* run(), lines 134-154: gather() is over; the exceptions are logged, the
\* other results kept, the progress callback called, the list returned.  A
\* callback that raises makes run() raise.
ManyReturn ==
    /\ run_pc = "gather"
    /\ TaskOver = DOMAIN gathered
    /\ many_results' = collect_results(gathered, 1)
    /\ callback_calls' = IF progress_callback = "none" THEN callback_calls
                         ELSE Append(callback_calls, many_results')
    /\ run_pc' = IF progress_callback = "raises" THEN "raised" ELSE "returned"
    /\ UNCHANGED <<engine, pool, beyond, max_concurrent, progress_callback, many_is_started,
                   many_runners, semaphore, start_urls, gathered,
                   factory_raises, traversal_raises, stop_outcomes>>

ManyStopKeepsStarted ==
    /\ Len(stop_outcomes) < MaxStops
    /\ many_runners = <<>>
    /\ stop_outcomes' = Append(stop_outcomes,
                               IF many_is_started THEN "returned" ELSE "noop")
    /\ UNCHANGED <<engine, pool, beyond, max_concurrent, progress_callback, many_is_started,
                   many_runners, many_results, semaphore, start_urls, run_pc,
                   gathered, factory_raises, traversal_raises, callback_calls>>

\* stop(), lines 88-105, called by the caller of run() or by another task
\* while run() awaits: a no-op when the coordinator is not started;
\* otherwise the stop() of every runner in _runners is gathered with
\* return_exceptions=True and the flag is cleared.  _runners is empty (only
\* line 181 adds to it), so there is no task to await and stop() runs
\* without suspension.
ManyStop ==
    /\ Len(stop_outcomes) < MaxStops
    /\ many_runners = <<>>
    /\ many_is_started' = FALSE
    /\ stop_outcomes' = Append(stop_outcomes,
                               IF many_is_started THEN "returned" ELSE "noop")
    /\ UNCHANGED <<engine, pool, beyond, max_concurrent, progress_callback, many_runners,
                   many_results, semaphore, start_urls, run_pc, gathered,
                   factory_raises, traversal_raises, callback_calls>>

\* AsyncManyRunner after __init__ (lines 42-63, auto_start=False), and the
\* seeds and the behaviour of user code and fetches that run() will meet.
InitMany ==
    /\ InitEngine
    /\ url_filter = Urls
    /\ strategy = "BFS" /\ max_depth = 0 /\ max_pages = 0 /\ start_url = 1
    /\ max_concurrent \in 1..MaxConcurrent
    /\ progress_callback \in {"none", "returns", "raises"}
    /\ many_is_started = FALSE
    /\ many_runners = <<>>
    /\ many_results = <<>>
    /\ semaphore = max_concurrent
    /\ start_urls \in SeedLists
    /\ run_pc = "idle"
    /\ gathered = <<>>
    /\ factory_raises \in [DOMAIN start_urls -> BOOLEAN]
    /\ traversal_raises \in [DOMAIN start_urls -> BOOLEAN]
    /\ callback_calls = <<>>
    /\ stop_outcomes = <<>>
    /\ NoPool
    /\ NoBeyond

NextMany ==
    \/ ManyRun
    \/ \E i \in DOMAIN start_urls : ChildCrawl(i)
    \/ ManyReturn
    \/ ManyStop

SpecMany == InitMany /\ [][NextMany]_vars

----------------------------------------------------------------------------
\* BrowserManager (src/browser/browser_manager.py): a pool of named
\* BrowserInstance handles. Its operations are coroutines of one event loop:
\* a task runs undisturbed up to its next suspending await, so that each
\* action below is the code of one operation between two suspensions. An
\* await of a coroutine that returns without suspending does not suspend.

\* Bounds: names, BrowserInstance objects ever constructed, tasks calling
\* pool operations at the same time, operations called in all, clock ticks.
NumNames == 2
MaxHandles == 3
MaxTasks == 2
MaxOps == 3
MaxTime == 3

Names == 1..NumNames
Tasks == 1..MaxTasks

\* The task that start() creates for _cleanup_loop().
Sweeper == 0
Procs == Tasks \cup {Sweeper}

\* _max_idle_time and _max_lifetime, with the idle threshold as the unit of
\* time (set_max_idle_time() and set_max_lifetime() choose their ratio).
max_idle_time == 1
max_lifetime == 2

Without(f, k) == [x \in DOMAIN f \ {k} |-> f[x]]

With(f, k, v) == [x \in DOMAIN f \cup {k} |-> IF x = k THEN v ELSE f[x]]

\* A task outside every pool operation; op, name and outcome tell the
\* operation it ran last and how that one ended.
Returned(op, name, outcome) ==
    [op |-> op, name |-> name, pc |-> "idle", inst |-> 0, pending |-> {},
     outcome |-> outcome]

\* A task suspended inside an operation, at the await named by at.
Suspended(op, name, at, h, pending) ==
    [op |-> op, name |-> name, pc |-> at, inst |-> h, pending |-> pending,
     outcome |-> "pending"]

\* The sweep task between two passes, in asyncio.sleep(60).
Sleeping(outcome) ==
    [Returned("sweep", 0, outcome) EXCEPT !.pc = "sleeping"]

\* The four dictionaries.
Maps ==
    [instances |-> instances, configs |-> instance_configs,
     created_at |-> instance_created_at, last_used |-> instance_last_used]

SetMaps(M) ==
    /\ instances' = M.instances
    /\ instance_configs' = M.configs
    /\ instance_created_at' = M.created_at
    /\ instance_last_used' = M.last_used

\* create_instance lines 100-104: the four assignments under name.
register(M, name, h, t) ==
    [instances |-> With(M.instances, name, h),
     configs |-> With(M.configs, name, "config"),
     created_at |-> With(M.created_at, name, t),
     last_used |-> With(M.last_used, name, t)]

\* remove_instance lines 150-153: four del statements in a row; the first
\* one whose key is missing raises KeyError and the later ones do not run.
del_entries(M, name) ==
    LET d1 == name \in DOMAIN M.instances
        d2 == d1 /\ name \in DOMAIN M.configs
        d3 == d2 /\ name \in DOMAIN M.created_at
        d4 == d3 /\ name \in DOMAIN M.last_used
    IN  [maps |->
           [instances |-> IF d1 THEN Without(M.instances, name)
                          ELSE M.instances,
            configs |-> IF d2 THEN Without(M.configs, name) ELSE M.configs,
            created_at |-> IF d3 THEN Without(M.created_at, name)
                           ELSE M.created_at,
            last_used |-> IF d4 THEN Without(M.last_used, name)
                          ELSE M.last_used],
         raised |-> ~d4]

\* stop_all_instances lines 200-203: the four clear() calls.
cleared ==
    [instances |-> <<>>, configs |-> <<>>, created_at |-> <<>>,
     last_used |-> <<>>]

\* restart_instance lines 182-183: the two timestamps are assigned under
\* name, whether or not _instances still has the name.
restamped(M, name, t) ==
    [M EXCEPT !.created_at = With(M.created_at, name, t),
              !.last_used = With(M.last_used, name, t)]

\* BrowserInstance.stop() (browser_instance.py lines 53-74) when it ends,
\* for a handle that was started when stop() was called: the browser is
\* closed and _is_started cleared, or closing raised, which stop() logs and
\* swallows, leaving _is_started set.
stopped_flags(h, closed) ==
    IF closed THEN [inst_started EXCEPT ![h] = FALSE] ELSE inst_started

stopped_open(h, closed) ==
    IF closed THEN [inst_open EXCEPT ![h] = Max(@ - 1, 0)] ELSE inst_open

\* BrowserInstance.start() (browser_instance.py lines 39-51) when it ends,
\* for a handle that was not started when start() was called: one more
\* browser is launched and _is_started set.
started_flags(h) == [inst_started EXCEPT ![h] = TRUE]

started_open(h) == [inst_open EXCEPT ![h] = @ + 1]

\* _cleanup_idle_instances lines 298-308: at time t the handle of name is
\* older than _max_lifetime or idle for longer than _max_idle_time.
expired(name, t) ==
    \/ t - instance_created_at[name] > max_lifetime
    \/ t - instance_last_used[name] > max_idle_time

CanCall(p) == procs[p].pc = "idle" /\ ops_begun < MaxOps

\* BrowserManager.start(), lines 36-45.
PoolStart ==
    /\ ~pool_is_running
    /\ pool_is_running' = TRUE
    /\ procs' = [procs EXCEPT ![Sweeper] = Sleeping("none")]
    /\ UNCHANGED <<engine, many, beyond, timely_gets, instances, instance_configs,
                   instance_created_at, instance_last_used,
                   inst_started, inst_open, handles, now, sweep_todo,
                   sweep_listed, inst_name, stop_calls, ops_begun,
                   last_caller>>

\* Time passes.
Tick ==
    /\ now < MaxTime
    /\ now' = now + 1
    /\ UNCHANGED <<engine, many, beyond, timely_gets,
                   pool_is_running, instances, instance_configs,
                   instance_created_at, instance_last_used,
                   inst_started, inst_open, handles, procs, sweep_todo,
                   sweep_listed, inst_name, stop_calls, ops_begun,
                   last_caller>>

\* create_instance(name, config, auto_start), lines 69-107, up to the await
\* of instance.start() (line 98) or, without auto_start, to its return.
CreateInstance(p, name, auto_start) ==
    /\ CanCall(p)
    /\ handles < MaxHandles
    /\ ops_begun' = ops_begun + 1
    /\ last_caller' = p
    /\ IF name \in DOMAIN instances
       THEN /\ procs' = [procs EXCEPT
                           ![p] = Returned("create", name, "ValueError")]
            /\ UNCHANGED <<instances, instance_configs, instance_created_at,
                           instance_last_used, inst_started,
                           inst_open, handles, inst_name>>
       ELSE /\ handles' = handles + 1
            /\ inst_name' = Append(inst_name, name)
            /\ inst_started' = Append(inst_started, FALSE)
            /\ inst_open' = Append(inst_open, 0)
            /\ IF auto_start
               THEN /\ procs' = [procs EXCEPT ![p] =
                          Suspended("create", name, "starting",
                                    handles + 1, {})]
                    /\ UNCHANGED <<instances, instance_configs,
                                   instance_created_at, instance_last_used>>
               ELSE /\ SetMaps(register(Maps, name, handles + 1, now))
                    /\ procs' = [procs EXCEPT ![p] =
                          [Returned("create", name, "returned")
                             EXCEPT !.inst = handles + 1]]
    /\ UNCHANGED <<engine, many, beyond, timely_gets, pool_is_running, now, sweep_todo,
                   sweep_listed, stop_calls>>

\* create_instance from the end of instance.start() to its return,
\* lines 100-107.
CreateStarted(p) ==
    /\ procs[p].op = "create" /\ procs[p].pc = "starting"
    /\ LET name == procs[p].name
           h == procs[p].inst
       IN  /\ inst_started' = started_flags(h)
           /\ inst_open' = started_open(h)
           /\ SetMaps(register(Maps, name, h, now))
           /\ procs' = [procs EXCEPT ![p] =
                 [Returned("create", name, "returned") EXCEPT !.inst = h]]
    /\ UNCHANGED <<engine, many, beyond, timely_gets,
                   pool_is_running, handles, now, sweep_todo,
                   sweep_listed, inst_name, stop_calls, ops_begun,
                   last_caller>>

\* A get_instance that refreshes the creation time as well.
GetInstanceRestamping(p, name) ==
    /\ CanCall(p)
    /\ ops_begun' = ops_begun + 1
    /\ last_caller' = p
    /\ IF name \notin DOMAIN instances
       THEN /\ procs' = [procs EXCEPT
                           ![p] = Returned("get", name, "KeyError")]
            /\ UNCHANGED <<instance_created_at, instance_last_used,
                           timely_gets>>
       ELSE /\ instance_last_used' = With(instance_last_used, name, now)
            /\ timely_gets' =
                  IF expired(name, now) THEN timely_gets
                  ELSE timely_gets \cup {<<instances[name], now>>}
            /\ instance_created_at' = With(instance_created_at, name, now)
            /\ procs' = [procs EXCEPT ![p] =
                  [Returned("get", name, "returned")
                     EXCEPT !.inst = instances[name]]]
    /\ UNCHANGED <<engine, many, beyond, pool_is_running, instances, instance_configs,
                   inst_started, inst_open, handles, now, sweep_todo,
                   sweep_listed, inst_name, stop_calls>>

\* get_instance(name), lines 109-127; it holds no await.
GetInstance(p, name) ==
    /\ CanCall(p)
    /\ ops_begun' = ops_begun + 1
    /\ last_caller' = p
    /\ IF name \notin DOMAIN instances
       THEN /\ procs' = [procs EXCEPT
                           ![p] = Returned("get", name, "KeyError")]
            /\ UNCHANGED <<instance_last_used, timely_gets>>
       ELSE /\ instance_last_used' = With(instance_last_used, name, now)
            /\ timely_gets' =
                  IF expired(name, now) THEN timely_gets
                  ELSE timely_gets \cup {<<instances[name], now>>}
            /\ procs' = [procs EXCEPT ![p] =
                  [Returned("get", name, "returned")
                     EXCEPT !.inst = instances[name]]]
    /\ UNCHANGED <<engine, many, beyond, pool_is_running, instances, instance_configs,
                   instance_created_at, inst_started, inst_open,
                   handles, now, sweep_todo, sweep_listed, inst_name,
                   stop_calls>>

\* remove_instance(name), lines 141-154, up to the end of a stop() that does
\* not suspend, or to the await of one that does (line 149).
RemoveInstance(p, name) ==
    /\ CanCall(p)
    /\ ops_begun' = ops_begun + 1
    /\ last_caller' = p
    /\ IF name \notin DOMAIN instances
       THEN /\ procs' = [procs EXCEPT
                           ![p] = Returned("remove", name, "returned")]
            /\ UNCHANGED <<instances, instance_configs, instance_created_at,
                           instance_last_used, stop_calls>>
       ELSE LET h == instances[name] IN
            /\ stop_calls' = stop_calls \cup {h}
            /\ IF inst_started[h]
               THEN /\ procs' = [procs EXCEPT ![p] =
                          Suspended("remove", name, "stopping", h, {})]
                    /\ UNCHANGED <<instances, instance_configs,
                                   instance_created_at, instance_last_used>>
               ELSE /\ SetMaps(del_entries(Maps, name).maps)
                    /\ procs' = [procs EXCEPT ![p] =
                          Returned("remove", name, "returned")]
    /\ UNCHANGED <<engine, many, beyond, timely_gets,
                   pool_is_running, inst_started, inst_open,
                   handles, now, sweep_todo, sweep_listed, inst_name>>

\* remove_instance from the end of the handle's stop() to its return,
\* lines 150-154.
RemoveStopped(p, closed) ==
    /\ procs[p].op = "remove" /\ procs[p].pc = "stopping"
    /\ LET name == procs[p].name
           h == procs[p].inst
           del == del_entries(Maps, name)
       IN  /\ inst_started' = stopped_flags(h, closed)
           /\ inst_open' = stopped_open(h, closed)
           /\ SetMaps(del.maps)
           /\ procs' = [procs EXCEPT ![p] =
                 Returned("remove", name,
                          IF del.raised THEN "KeyError" ELSE "returned")]
    /\ UNCHANGED <<engine, many, beyond, timely_gets,
                   pool_is_running, handles, now, sweep_todo,
                   sweep_listed, inst_name, stop_calls, ops_begun,
                   last_caller>>

\* restart_instance lines 181-186, after the handle's start().
restart_finish(p, name) ==
    /\ SetMaps(restamped(Maps, name, now))
    /\ procs' = [procs EXCEPT ![p] =
          IF name \in DOMAIN instances
          THEN [Returned("restart", name, "returned")
                  EXCEPT !.inst = instances[name]]
          ELSE Returned("restart", name, "KeyError")]

\* restart_instance line 178, await self._instances[name].start(), with
\* flags the _is_started of every handle at that moment: KeyError when the
\* name is gone, no suspension when the handle is started already.
restart_start(p, name, flags) ==
    IF name \notin DOMAIN instances
    THEN /\ procs' = [procs EXCEPT
                        ![p] = Returned("restart", name, "KeyError")]
         /\ UNCHANGED <<instances, instance_configs, instance_created_at,
                        instance_last_used>>
    ELSE IF flags[instances[name]]
         THEN restart_finish(p, name)
         ELSE /\ procs' = [procs EXCEPT ![p] =
                    Suspended("restart", name, "starting",
                              instances[name], {})]
              /\ UNCHANGED <<instances, instance_configs,
                             instance_created_at, instance_last_used>>

\* restart_instance(name), lines 156-186, up to its first suspension.
RestartInstance(p, name) ==
    /\ CanCall(p)
    /\ ops_begun' = ops_begun + 1
    /\ last_caller' = p
    /\ IF name \notin DOMAIN instances
       THEN /\ procs' = [procs EXCEPT
                           ![p] = Returned("restart", name, "KeyError")]
            /\ UNCHANGED <<instances, instance_configs, instance_created_at,
                           instance_last_used, stop_calls>>
       ELSE LET h == instances[name] IN
            /\ stop_calls' = stop_calls \cup {h}
            /\ IF inst_started[h]
               THEN /\ procs' = [procs EXCEPT ![p] =
                          Suspended("restart", name, "stopping", h, {})]
                    /\ UNCHANGED <<instances, instance_configs,
                                   instance_created_at, instance_last_used>>
               ELSE restart_start(p, name, inst_started)
    /\ UNCHANGED <<engine, many, beyond, timely_gets,
                   pool_is_running, inst_started, inst_open,
                   handles, now, sweep_todo, sweep_listed, inst_name>>

\* restart_instance from the end of the handle's stop() (line 175) on.
RestartStopped(p, closed) ==
    /\ procs[p].op = "restart" /\ procs[p].pc = "stopping"
    /\ inst_started' = stopped_flags(procs[p].inst, closed)
    /\ inst_open' = stopped_open(procs[p].inst, closed)
    /\ restart_start(p, procs[p].name, stopped_flags(procs[p].inst, closed))
    /\ UNCHANGED <<engine, many, beyond, timely_gets,
                   pool_is_running, handles, now, sweep_todo,
                   sweep_listed, inst_name, stop_calls, ops_begun,
                   last_caller>>

\* restart_instance from the end of the handle's start() (line 178) on.
RestartStarted(p) ==
    /\ procs[p].op = "restart" /\ procs[p].pc = "starting"
    /\ inst_started' = started_flags(procs[p].inst)
    /\ inst_open' = started_open(procs[p].inst)
    /\ restart_finish(p, procs[p].name)
    /\ UNCHANGED <<engine, many, beyond, timely_gets,
                   pool_is_running, handles, now, sweep_todo,
                   sweep_listed, inst_name, stop_calls, ops_begun,
                   last_caller>>

\* stop_all_instances(), lines 188-205, up to the await of gather()
\* (line 197) or, with an empty pool, to its return. A handle that is not
\* started ends its stop() at once.
stop_all_begin(p, op) ==
    IF DOMAIN instances = {}
    THEN /\ SetMaps(cleared)
         /\ procs' = [procs EXCEPT ![p] = Returned(op, 0, "returned")]
         /\ UNCHANGED stop_calls
    ELSE /\ stop_calls' = stop_calls \cup Range(instances)
         /\ procs' = [procs EXCEPT ![p] =
               Suspended(op, 0, "gathering", 0,
                         {h \in Range(instances) : inst_started[h]})]
         /\ UNCHANGED <<instances, instance_configs, instance_created_at,
                        instance_last_used>>

\* stop_all_instances() called by a task.
StopAllInstances(p) ==
    /\ CanCall(p)
    /\ ops_begun' = ops_begun + 1
    /\ last_caller' = p
    /\ stop_all_begin(p, "stop_all")
    /\ UNCHANGED <<engine, many, beyond, timely_gets,
                   pool_is_running, inst_started, inst_open,
                   handles, now, sweep_todo, sweep_listed, inst_name>>

\* One of the stop() calls that stop_all_instances gathered ends.
StopAllChildStopped(p, h, closed) ==
    /\ procs[p].pc = "gathering"
    /\ h \in procs[p].pending
    /\ inst_started' = stopped_flags(h, closed)
    /\ inst_open' = stopped_open(h, closed)
    /\ procs' = [procs EXCEPT ![p].pending = @ \ {h}]
    /\ UNCHANGED <<engine, many, beyond, timely_gets,
                   pool_is_running, instances, instance_configs,
                   instance_created_at, instance_last_used,
                   handles, now, sweep_todo, sweep_listed, inst_name,
                   stop_calls, ops_begun,
                   last_caller>>

\* A stop_all_instances that leaves the last-used times in place.
StopAllReturnsKeepingTimes(p) ==
    /\ procs[p].pc = "gathering"
    /\ procs[p].pending = {}
    /\ SetMaps([cleared EXCEPT !.last_used = instance_last_used])
    /\ procs' = [procs EXCEPT ![p] = Returned(procs[p].op, 0, "returned")]
    /\ UNCHANGED <<engine, many, beyond, timely_gets,
                   pool_is_running, inst_started, inst_open,
                   handles, now, sweep_todo, sweep_listed, inst_name,
                   stop_calls, ops_begun, last_caller>>

\* stop_all_instances from the end of gather() to its return, lines 199-205.
StopAllReturns(p) ==
    /\ procs[p].pc = "gathering"
    /\ procs[p].pending = {}
    /\ SetMaps(cleared)
    /\ procs' = [procs EXCEPT ![p] = Returned(procs[p].op, 0, "returned")]
    /\ UNCHANGED <<engine, many, beyond, timely_gets,
                   pool_is_running, inst_started, inst_open,
                   handles, now, sweep_todo, sweep_listed, inst_name,
                   stop_calls, ops_begun,
                   last_caller>>

\* The sweep task before start() and after a stop() cancelled it.
Off(op, outcome) == [Returned(op, 0, outcome) EXCEPT !.pc = "off"]

\* BrowserManager.stop(), lines 47-67, up to the await of the cancelled sweep
\* task (line 60), or to its return at line 52. The CancelledError reaches
\* the sweep task where it is suspended, in sleep() or in the stop() of the
\* handle it is removing, and ends it there: _cleanup_loop breaks (line
\* 285), the handle's _is_started and the maps keep their values.
PoolStop(p) ==
    /\ CanCall(p)
    /\ ops_begun' = ops_begun + 1
    /\ last_caller' = p
    /\ IF ~pool_is_running
       THEN /\ procs' = [procs EXCEPT ![p] = Returned("stop", 0, "returned")]
            /\ UNCHANGED <<pool_is_running, sweep_todo>>
       ELSE /\ pool_is_running' = FALSE
            /\ sweep_todo' = <<>>
            /\ procs' = [procs EXCEPT
                  ![p] = Suspended("stop", 0, "cancelling", 0, {}),
                  ![Sweeper] = Off("sweep", "cancelled")]
    /\ UNCHANGED <<engine, many, beyond, timely_gets, instances, instance_configs,
                   instance_created_at, instance_last_used, inst_started,
                   inst_open, handles, now, sweep_listed, inst_name,
                   stop_calls>>

\* BrowserManager.stop() from the end of the sweep task on, lines 63-66: it
\* runs stop_all_instances() up to the await of gather() or, with an empty
\* pool, to its own return.
PoolStopSweepOver(p) ==
    /\ procs[p].op = "stop" /\ procs[p].pc = "cancelling"
    /\ stop_all_begin(p, "stop")
    /\ UNCHANGED <<engine, many, beyond, timely_gets, pool_is_running, inst_started,
                   inst_open, handles, now, sweep_todo, sweep_listed,
                   inst_name, ops_begun, last_caller>>

\* _cleanup_idle_instances lines 295-311: the set of the names whose handle
\* is older than _max_lifetime or idle for longer than _max_idle_time.
instances_to_remove(t) == {name \in DOMAIN instances : expired(name, t)}

\* The orders in which a for loop may go through a set of names.
Orderings(S) ==
    {s \in [1..Cardinality(S) -> S] :
        \A i, j \in DOMAIN s : s[i] = s[j] => i = j}

\* _cleanup_idle_instances lines 313-314, from the name at the head of todo
\* up to the next suspension: remove_instance() of a name that is gone, or
\* whose handle is not started, runs through without suspending.
RECURSIVE cleanup_removals(_, _, _, _)
cleanup_removals(todo, M, calls, flags) ==
    IF todo = <<>>
    THEN [todo |-> <<>>, maps |-> M, calls |-> calls,
          proc |-> Sleeping("returned")]
    ELSE LET name == Head(todo) IN
         IF name \notin DOMAIN M.instances
         THEN cleanup_removals(Tail(todo), M, calls, flags)
         ELSE IF flags[M.instances[name]]
              THEN [todo |-> Tail(todo), maps |-> M,
                    calls |-> calls \cup {M.instances[name]},
                    proc |-> Suspended("sweep", name, "stopping",
                                       M.instances[name], {})]
              ELSE cleanup_removals(Tail(todo), del_entries(M, name).maps,
                                    calls \cup {M.instances[name]}, flags)

\* One pass of _cleanup_loop (lines 276-288) begins: the sweep task wakes
\* from its sleep and runs _cleanup_idle_instances (lines 290-314) up to its
\* first suspension.
SweepPass ==
    /\ pool_is_running
    /\ procs[Sweeper].pc = "sleeping"
    /\ \E todo \in Orderings(instances_to_remove(now)) :
       LET run == cleanup_removals(todo, Maps, stop_calls, inst_started)
       IN  /\ sweep_listed' = {instances[todo[i]] : i \in DOMAIN todo}
           /\ sweep_todo' = run.todo
           /\ SetMaps(run.maps)
           /\ stop_calls' = run.calls
           /\ procs' = [procs EXCEPT ![Sweeper] = run.proc]
    /\ UNCHANGED <<engine, many, beyond, timely_gets,
                   pool_is_running, inst_started, inst_open,
                   handles, now, inst_name, ops_begun,
                   last_caller>>

\* The pass goes on after the stop() of the handle it is removing: the del
\* statements of remove_instance, then the rest of the list; a KeyError
\* leaves _cleanup_idle_instances and is logged by _cleanup_loop (line 286),
\* which sleeps until the next pass.
SweepStopped(closed) ==
    /\ procs[Sweeper].op = "sweep" /\ procs[Sweeper].pc = "stopping"
    /\ LET h == procs[Sweeper].inst
           del == del_entries(Maps, procs[Sweeper].name)
           run == cleanup_removals(sweep_todo, del.maps, stop_calls,
                                   stopped_flags(h, closed))
       IN  /\ inst_started' = stopped_flags(h, closed)
           /\ inst_open' = stopped_open(h, closed)
           /\ IF del.raised
              THEN /\ SetMaps(del.maps)
                   /\ sweep_todo' = <<>>
                   /\ procs' = [procs EXCEPT
                                  ![Sweeper] = Sleeping("KeyError")]
                   /\ UNCHANGED stop_calls
              ELSE /\ SetMaps(run.maps)
                   /\ sweep_todo' = run.todo
                   /\ stop_calls' = run.calls
                   /\ procs' = [procs EXCEPT ![Sweeper] = run.proc]
    /\ UNCHANGED <<engine, many, beyond, timely_gets,
                   pool_is_running, handles, now, sweep_listed,
                   inst_name, ops_begun,
                   last_caller>>

\* BrowserManager after __init__ (lines 23-34): an empty pool that is not
\* running, and no task inside an operation.
InitPool ==
    /\ InitEngine
    /\ url_filter = Urls
    /\ strategy = "BFS" /\ max_depth = 0 /\ max_pages = 0 /\ start_url = 1
    /\ NoManyRunner
    /\ NoBeyond
    /\ pool_is_running = FALSE
    /\ instances = <<>>
    /\ instance_configs = <<>>
    /\ instance_created_at = <<>>
    /\ instance_last_used = <<>>
    /\ inst_started = <<>>
    /\ inst_open = <<>>
    /\ handles = 0
    /\ now = 0
    /\ procs = [p \in Procs |->
                  IF p = Sweeper THEN Off("none", "none")
                  ELSE Returned("none", 0, "none")]
    /\ sweep_todo = <<>>
    /\ sweep_listed = {}
    /\ inst_name = <<>>
    /\ stop_calls = {}
    /\ ops_begun = 0
    /\ last_caller = 0
    /\ timely_gets = {}

NextPool ==
    \/ PoolStart
    \/ Tick
    \/ \E p \in Tasks, name \in Names, auto_start \in BOOLEAN :
           CreateInstance(p, name, auto_start)
    \/ \E p \in Tasks : CreateStarted(p)
    \/ \E p \in Tasks, name \in Names : GetInstance(p, name)
    \/ \E p \in Tasks, name \in Names : RemoveInstance(p, name)
    \/ \E p \in Tasks, closed \in BOOLEAN : RemoveStopped(p, closed)
    \/ \E p \in Tasks, name \in Names : RestartInstance(p, name)
    \/ \E p \in Tasks, closed \in BOOLEAN : RestartStopped(p, closed)
    \/ \E p \in Tasks : RestartStarted(p)
    \/ \E p \in Tasks : StopAllInstances(p)
    \/ \E p \in Tasks, h \in 1..MaxHandles, closed \in BOOLEAN :
           StopAllChildStopped(p, h, closed)
    \/ \E p \in Tasks : StopAllReturns(p)
    \/ \E p \in Tasks : PoolStop(p)
    \/ \E p \in Tasks : PoolStopSweepOver(p)
    \/ SweepPass
    \/ \E closed \in BOOLEAN : SweepStopped(closed)

SpecPool == InitPool /\ [][NextPool]_vars

----------------------------------------------------------------------------
\* AsyncRunner (src/runner/AsyncRunner.py) with the scraper it was given
\* (src/scrapers/BaseScraper.py) and the scraper's BrowserInstance. Tasks of
\* one event loop call start() and stop(); each action is the code of one
\* call between two suspensions. _startup_task is None in both classes: no
\* line assigns it anything else.

\* Bounds: tasks calling the coordinator, calls made in all.
MaxRunnerTasks == 2
MaxRunnerOps == 4

RunnerTasks == 1..MaxRunnerTasks

RunnerReturned(op, outcome) == [op |-> op, pc |-> "idle", outcome |-> outcome]

RunnerSuspended(op, at) == [op |-> op, pc |-> at, outcome |-> "pending"]

RunnerCanCall(p) == runner_procs[p].pc = "idle" /\ runner_ops < MaxRunnerOps

\* AsyncRunner.start(), lines 57-70, with BaseScraper.start() (lines 45-58)
\* and BrowserInstance.start() (lines 39-51) inside it, up to the await of
\* the browser launch or, when a flag says started, to its return.
RunnerStart(p) ==
    /\ RunnerCanCall(p)
    /\ runner_ops' = runner_ops + 1
    /\ runner_caller' = p
    /\ stop_returned' = FALSE
    /\ IF runner_is_started
       THEN /\ runner_procs' = [runner_procs EXCEPT
                                  ![p] = RunnerReturned("start", "returned")]
            /\ UNCHANGED <<runner_is_started, scraper_is_started>>
       ELSE IF scraper_is_started
       THEN /\ runner_is_started' = TRUE
            /\ runner_procs' = [runner_procs EXCEPT
                                  ![p] = RunnerReturned("start", "returned")]
            /\ UNCHANGED scraper_is_started
       ELSE IF browser_is_started
       THEN /\ scraper_is_started' = TRUE
            /\ runner_is_started' = TRUE
            /\ runner_procs' = [runner_procs EXCEPT
                                  ![p] = RunnerReturned("start", "returned")]
       ELSE /\ runner_procs' = [runner_procs EXCEPT
                                  ![p] = RunnerSuspended("start", "launching")]
            /\ UNCHANGED <<runner_is_started, scraper_is_started>>
    /\ UNCHANGED <<engine, many, pool, chains, level, browser_is_started, context,
                   current_page, browsers_open, launches, teardowns>>

\* start() from the end of the browser launch on: BrowserInstance.start()
\* line 51, BaseScraper.start() line 54, AsyncRunner.start() line 66; a
\* launch that raises leaves the three flags as they are and start() raises
\* (lines 56-58, 68-70).
RunnerStarted(p, launched) ==
    /\ runner_procs[p].op = "start" /\ runner_procs[p].pc = "launching"
    /\ IF launched
       THEN /\ browsers_open' = browsers_open + 1
            /\ launches' = launches + 1
            /\ browser_is_started' = TRUE
            /\ scraper_is_started' = TRUE
            /\ runner_is_started' = TRUE
            /\ runner_procs' = [runner_procs EXCEPT
                                  ![p] = RunnerReturned("start", "returned")]
       ELSE /\ runner_procs' = [runner_procs EXCEPT
                                  ![p] = RunnerReturned("start", "raised")]
            /\ UNCHANGED <<browsers_open, launches, browser_is_started,
                           scraper_is_started, runner_is_started>>
    /\ UNCHANGED <<engine, many, pool, chains, level, context, current_page, teardowns,
                   runner_ops, runner_caller, stop_returned>>

\* BaseScraper.create_page(), lines 151-171, as a crawl calls it through
\* get_page(): a context and a page are opened on the started browser.
ScraperCreatePage ==
    /\ scraper_is_started /\ browser_is_started
    /\ ~current_page
    /\ context' = TRUE
    /\ current_page' = TRUE
    /\ UNCHANGED <<engine, many, pool, chains, level, runner_is_started, scraper_is_started,
                   browser_is_started, browsers_open, launches, teardowns,
                   runner_procs, runner_ops, runner_caller, stop_returned>>

\* A stop() without the test of _is_started.
RunnerStopUnguarded(p) ==
    /\ RunnerCanCall(p)
    /\ runner_ops' = runner_ops + 1
    /\ runner_caller' = p
    /\ teardowns' = teardowns + 1
    /\ runner_procs' = [runner_procs EXCEPT
                          ![p] = RunnerSuspended("stop", "tearing_down")]
    /\ UNCHANGED <<engine, many, pool, chains, level, scraper_is_started, browser_is_started,
                   context, current_page, browsers_open, launches,
                   runner_is_started, stop_returned>>

\* AsyncRunner.stop(), lines 72-99, with BaseScraper.stop() (lines 60-93)
\* inside it, up to the first await of the teardown or, when a flag says
\* not started, to its return. strategy.stop() (line 91) does not suspend;
\* it clears the engine's _is_running, which no crawl has set here.
RunnerStop(p) ==
    /\ RunnerCanCall(p)
    /\ runner_ops' = runner_ops + 1
    /\ runner_caller' = p
    /\ IF ~runner_is_started
       THEN /\ runner_procs' = [runner_procs EXCEPT
                                  ![p] = RunnerReturned("stop", "returned")]
            /\ stop_returned' = TRUE
            /\ UNCHANGED <<runner_is_started, teardowns>>
       ELSE IF ~scraper_is_started
       THEN /\ runner_is_started' = FALSE
            /\ runner_procs' = [runner_procs EXCEPT
                                  ![p] = RunnerReturned("stop", "returned")]
            /\ stop_returned' = TRUE
            /\ UNCHANGED teardowns
       ELSE /\ teardowns' = teardowns + 1
            /\ runner_procs' = [runner_procs EXCEPT
                  ![p] = RunnerSuspended("stop", "tearing_down")]
            /\ UNCHANGED <<runner_is_started, stop_returned>>
    /\ UNCHANGED <<engine, many, pool, chains, level, scraper_is_started, browser_is_started,
                   context, current_page, browsers_open, launches>>

\* stop() from the end of the teardown on: BaseScraper.stop() lines 79-89
\* with BrowserInstance.stop() (lines 57-70), AsyncRunner.stop() line 95; a
\* page or context whose close() raises leaves the flags as they are and
\* stop() raises (lines 91-93, 97-99).
RunnerStopped(p, closed) ==
    /\ runner_procs[p].op = "stop" /\ runner_procs[p].pc = "tearing_down"
    /\ IF closed
       THEN /\ current_page' = FALSE
            /\ context' = FALSE
            /\ browsers_open' = IF browser_is_started
                                THEN Max(browsers_open - 1, 0)
                                ELSE browsers_open
            /\ browser_is_started' = FALSE
            /\ scraper_is_started' = FALSE
            /\ runner_is_started' = FALSE
            /\ stop_returned' = TRUE
            /\ runner_procs' = [runner_procs EXCEPT
                                  ![p] = RunnerReturned("stop", "returned")]
       ELSE /\ runner_procs' = [runner_procs EXCEPT
                                  ![p] = RunnerReturned("stop", "raised")]
            /\ UNCHANGED <<current_page, context, browsers_open,
                           browser_is_started, scraper_is_started,
                           runner_is_started, stop_returned>>
    /\ UNCHANGED <<engine, many, pool, chains, level, launches, teardowns, runner_ops,
                   runner_caller>>

\* AsyncRunner after __init__ (lines 40-55) with a scraper after its own
\* (BaseScraper lines 37-42): nothing is started.
InitRunner ==
    /\ InitEngine
    /\ url_filter = Urls
    /\ strategy = "BFS" /\ max_depth = 0 /\ max_pages = 0 /\ start_url = 1
    /\ NoManyRunner
    /\ NoPool
    /\ runner_is_started = FALSE
    /\ scraper_is_started = FALSE
    /\ browser_is_started = FALSE
    /\ context = FALSE
    /\ current_page = FALSE
    /\ browsers_open = 0
    /\ launches = 0
    /\ teardowns = 0
    /\ runner_procs = [p \in RunnerTasks |-> RunnerReturned("none", "none")]
    /\ runner_ops = 0
    /\ runner_caller = 0
    /\ stop_returned = FALSE
    /\ NoChains
    /\ NoLevel

NextRunner ==
    \/ \E p \in RunnerTasks : RunnerStart(p)
    \/ \E p \in RunnerTasks, launched \in BOOLEAN : RunnerStarted(p, launched)
    \/ ScraperCreatePage
    \/ \E p \in RunnerTasks : RunnerStop(p)
    \/ \E p \in RunnerTasks, closed \in BOOLEAN : RunnerStopped(p, closed)

SpecRunner == InitRunner /\ [][NextRunner]_vars

----------------------------------------------------------------------------
\* Filter trees (src/filters/base.py, src/filters/chain.py)
\*
\* The Filter objects live in filter_objs; an object is known by its index,
\* as a Python object is by its identity (no Filter class defines __eq__).
\* Objects 1..NumLeaves are leaf filters, whose run() is any function from
\* the input to a boolean; the others are FilterChain objects, which hold
\* an operator and the list of their children.

NumLeaves == 1
NumFilterUrls == 1
MaxObjects == 4
MaxChildren == 3
MaxMutations == 1

Leaves == 1..NumLeaves

FilterUrls == 1..NumFilterUrls

\* The operator strings a caller may pass; "xor" stands for every string
\* that is not an operator.
Operators == {"and", "or", "not", "xor"}

Leaf == [operator |-> "leaf", filters |-> <<>>]

\* FilterChain.__init__, lines 26-27 (operator.lower() of a lower-case
\* string).
FilterChain(fs, operator) == [operator |-> operator, filters |-> fs]

\* The two tests of FilterChain.__init__ that raise ValueError, lines 29-35.
init_raises(fs, operator) ==
    \/ operator \notin {"and", "or", "not"}
    \/ operator = "not" /\ Len(fs) # 1

\* isinstance(f, FilterChain)
IsChain(h, f) == h[f].operator # "leaf"

\* Filter.__and__, base.py lines 30-42.
Filter_and(self, other) == FilterChain(<<self, other>>, "and")

\* An __and__ of an AND chain that leaves the other operand out.
FilterChain_andWithoutOther(h, self, other) ==
    IF h[self].operator = "and"
    THEN FilterChain(h[self].filters, "and")
    ELSE FilterChain(<<self, other>>, "and")

\* FilterChain.__and__, chain.py lines 95-115.
FilterChain_and(h, self, other) ==
    IF h[self].operator = "and"
    THEN FilterChain(IF IsChain(h, other) /\ h[other].operator = "and"
                     THEN h[self].filters \o h[other].filters
                     ELSE Append(h[self].filters, other),
                     "and")
    ELSE FilterChain(<<self, other>>, "and")

\* self & other: Python calls the __and__ of the class of self.
AndOf(h, self, other) ==
    IF IsChain(h, self) THEN FilterChain_and(h, self, other)
    ELSE Filter_and(self, other)

\* Filter.__or__, base.py lines 44-56.
Filter_or(self, other) == FilterChain(<<self, other>>, "or")

\* FilterChain.__or__, chain.py lines 117-137.
FilterChain_or(h, self, other) ==
    IF h[self].operator = "or"
    THEN FilterChain(IF IsChain(h, other) /\ h[other].operator = "or"
                     THEN h[self].filters \o h[other].filters
                     ELSE Append(h[self].filters, other),
                     "or")
    ELSE FilterChain(<<self, other>>, "or")

\* self | other
OrOf(h, self, other) ==
    IF IsChain(h, self) THEN FilterChain_or(h, self, other)
    ELSE Filter_or(self, other)

\* An __invert__ that builds a NOT chain with no child.
Filter_invertEmpty(self) == FilterChain(<<>>, "not")

\* Filter.__invert__, base.py lines 58-67.
Filter_invert(self) == FilterChain(<<self>>, "not")

\* FilterChain.__invert__, chain.py lines 139-146.
FilterChain_invert(self) == FilterChain(<<self>>, "not")

\* ~self
InvertOf(h, self) ==
    IF IsChain(h, self) THEN FilterChain_invert(self)
    ELSE Filter_invert(self)

\* list.remove: the list without the first occurrence of f.
list_remove(fs, f) ==
    LET i == CHOOSE k \in DOMAIN fs :
                 fs[k] = f /\ \A j \in 1..(k - 1) : fs[j] # f
    IN  SubSeq(fs, 1, i - 1) \o SubSeq(fs, i + 1, Len(fs))

RECURSIVE run(_, _, _)
RECURSIVE run_and(_, _, _, _)
RECURSIVE run_or(_, _, _, _)

\* The loop of lines 52-55, from the i-th child on.
run_and(h, fs, i, u) ==
    IF i > Len(fs) THEN TRUE
    ELSE IF ~run(h, fs[i], u) THEN FALSE
    ELSE run_and(h, fs, i + 1, u)

\* The loop of lines 59-62, from the i-th child on.
run_or(h, fs, i, u) ==
    IF i > Len(fs) THEN FALSE
    ELSE IF run(h, fs[i], u) THEN TRUE
    ELSE run_or(h, fs, i + 1, u)

\* f.run(u): the verdict of the leaf, or FilterChain.run, lines 47-68.
run(h, f, u) ==
    IF ~IsChain(h, f) THEN u \in leaf_accepts[f]
    ELSE IF h[f].filters = <<>> THEN TRUE
    ELSE IF h[f].operator = "and" THEN run_and(h, h[f].filters, 1, u)
    ELSE IF h[f].operator = "or" THEN run_or(h, h[f].filters, 1, u)
    ELSE IF h[f].operator = "not" THEN ~run(h, h[f].filters[1], u)
    ELSE FALSE

\* How an object came to be: the operation and its operands.
Made(op, a, b) == [op |-> op, a |-> a, b |-> b]

\* The lists of at most two objects a caller passes to FilterChain().
ChildLists ==
    {<<>>} \cup {<<a>> : a \in 1..MaxObjects}
           \cup {<<a, b>> : a \in 1..MaxObjects, b \in 1..MaxObjects}

\* The objects that exist.
Objects == DOMAIN filter_objs

\* A new object enters the heap.
Allocate(obj, how) ==
    /\ Len(filter_objs) < MaxObjects
    /\ filter_objs' = Append(filter_objs, obj)
    /\ made' = Append(made, how)
    /\ chain_outcome' = "returned"
    /\ UNCHANGED <<leaf_accepts, mutations>>

\* FilterChain(filters=fs, operator=operator), lines 18-35.
ChainInit(fs, operator) ==
    /\ Range(fs) \subseteq Objects
    /\ IF init_raises(fs, operator)
       THEN /\ Len(filter_objs) < MaxObjects
            /\ chain_outcome' = "ValueError"
            /\ UNCHANGED <<filter_objs, made, leaf_accepts, mutations>>
       ELSE Allocate(FilterChain(fs, operator), Made("init", 0, 0))
    /\ UNCHANGED <<engine, many, pool, runner, level>>

\* a & b
ChainAnd(a, b) ==
    /\ a \in Objects /\ b \in Objects
    /\ Allocate(AndOf(filter_objs, a, b), Made("and", a, b))
    /\ UNCHANGED <<engine, many, pool, runner, level>>

\* a | b
ChainOr(a, b) ==
    /\ a \in Objects /\ b \in Objects
    /\ Allocate(OrOf(filter_objs, a, b), Made("or", a, b))
    /\ UNCHANGED <<engine, many, pool, runner, level>>

\* ~a
ChainInvert(a) ==
    /\ a \in Objects
    /\ Allocate(InvertOf(filter_objs, a), Made("not", a, 0))
    /\ UNCHANGED <<engine, many, pool, runner, level>>

\* c.add_filter(f), lines 70-77.  Callers add objects older than the
\* chain, which keeps the trees free of cycles.
AddFilter(c, f) ==
    /\ c \in Objects /\ f \in Objects
    /\ IsChain(filter_objs, c)
    /\ f < c
    /\ Len(filter_objs[c].filters) < MaxChildren
    /\ mutations < MaxMutations
    /\ mutations' = mutations + 1
    /\ filter_objs' = [filter_objs EXCEPT ![c].filters = Append(@, f)]
    /\ chain_outcome' = "returned"
    /\ UNCHANGED <<engine, many, pool, runner, level, made,
                   leaf_accepts>>

\* c.remove_filter(f), lines 79-93.
RemoveFilter(c, f) ==
    /\ c \in Objects /\ f \in Objects
    /\ IsChain(filter_objs, c)
    /\ mutations < MaxMutations
    /\ mutations' = mutations + 1
    /\ IF f \in Range(filter_objs[c].filters)
       THEN /\ filter_objs' =
                  [filter_objs EXCEPT ![c].filters = list_remove(@, f)]
            /\ chain_outcome' = "True"
       ELSE /\ chain_outcome' = "False"
            /\ UNCHANGED filter_objs
    /\ UNCHANGED <<engine, many, pool, runner, level, made,
                   leaf_accepts>>

InitChains ==
    /\ InitEngine
    /\ url_filter = Urls
    /\ strategy = "BFS" /\ max_depth = 0 /\ max_pages = 0 /\ start_url = 1
    /\ NoManyRunner
    /\ NoPool
    /\ NoRunner
    /\ NoLevel
    /\ filter_objs = [f \in Leaves |-> Leaf]
    /\ made = [f \in Leaves |-> Made("leaf", 0, 0)]
    /\ leaf_accepts \in [Leaves -> SUBSET FilterUrls]
    /\ chain_outcome = "none"
    /\ mutations = 0

NextChains ==
    \/ \E fs \in ChildLists, operator \in Operators : ChainInit(fs, operator)
    \/ \E a, b \in 1..MaxObjects : ChainAnd(a, b)
    \/ \E a, b \in 1..MaxObjects : ChainOr(a, b)
    \/ \E a \in 1..MaxObjects : ChainInvert(a)
    \/ \E c, f \in 1..MaxObjects : AddFilter(c, f)
    \/ \E c, f \in 1..MaxObjects : RemoveFilter(c, f)

SpecChains == InitChains /\ [][NextChains]_vars

----------------------------------------------------------------------------
\* BFSCrawlingStrategy._bfs_level_crawl (BFSCrawlingStrategy.py lines
\* 115-180): the URLs of one depth are scraped by tasks that run together
\* under asyncio.gather.  A task is suspended once, in the scrape of
\* _scrape_page; the loop that creates the tasks does not await.

MaxLevelUrls == 2

\* The lists of URLs a level is called with, repeated URLs included.
LevelLists == UNION {[1..n -> Urls] : n \in 1..MaxLevelUrls}

LevelPending == [pc |-> "pending", links |-> <<>>]

LevelDone(links) == [pc |-> "done", links |-> links]

\* Lines 132-135: a task for each URL, while the budget test passes.  No
\* scrape has begun yet, so the test sees the same counter for every URL.
RECURSIVE level_tasks_for(_)
level_tasks_for(urls) ==
    IF urls = <<>> THEN <<>>
    ELSE IF should_continue_crawling(pages_crawled) /\ is_running
         THEN <<LevelPending>> \o level_tasks_for(Tail(urls))
         ELSE level_tasks_for(Tail(urls))

\* Lines 142-146: the lists the tasks returned, joined in task order.
RECURSIVE level_extend(_)
level_extend(tasks) ==
    IF tasks = <<>> THEN <<>>
    ELSE Head(tasks).links \o level_extend(Tail(tasks))

\* _bfs_level_crawl(urls, depth, result) is called: lines 129-139.
LevelCrawl(urls, depth) ==
    /\ level_pc = "idle"
    /\ level_urls' = urls
    /\ level_depth' = depth
    /\ LET tasks == level_tasks_for(urls)
       IN  /\ level_tasks' = tasks
           /\ level_pc' = IF tasks = <<>> THEN "returned" ELSE "gather"
    /\ next_level_urls' = <<>>
    /\ UNCHANGED <<engine, many, pool, runner, chains>>

\* The scrape of task i returns a page: _scrape_page lines 84-87, then
\* _scrape_and_extract_links lines 166-180.
LevelScrapeOk(i) ==
    /\ level_pc = "gather"
    /\ i \in DOMAIN level_tasks
    /\ level_tasks[i].pc = "pending"
    /\ \E links \in LinkLists :
        /\ Serves(level_urls[i], links)
        /\ web' = [web EXCEPT ![level_urls[i]] = {links}]
        /\ LET url == level_urls[i]
               visited == visited_urls \cup {url}
           IN  /\ visited_urls' = visited
               /\ pages_crawled' = pages_crawled + 1
               /\ result' = add_scraped_page(result, url)
               /\ level_tasks' = [level_tasks EXCEPT ![i] =
                     IF bfs_depth_limit_reached(level_depth)
                     THEN LevelDone(<<>>)
                     ELSE LevelDone(extract_links(links, visited))]
    /\ UNCHANGED <<config, caller, many, pool, runner, chains, failed_urls,
                   current_depth, is_running, pc, start_url, queue,
                   queued_urls, stack, cur, attempts, marks, stop_called,
                   level_urls, level_depth, level_pc, next_level_urls>>

\* The scrape of task i raises: _scrape_page lines 88-91, then line 167.
LevelScrapeFail(i) ==
    /\ level_pc = "gather"
    /\ i \in DOMAIN level_tasks
    /\ level_tasks[i].pc = "pending"
    /\ failed_urls' = record_failure(level_urls[i])
    /\ level_tasks' = [level_tasks EXCEPT ![i] = LevelDone(<<>>)]
    /\ UNCHANGED <<config, caller, many, pool, runner, chains, visited_urls,
                   current_depth, pages_crawled, is_running, pc, start_url,
                   queue, queued_urls, stack, cur, result, web, attempts,
                   marks, stop_called, level_urls, level_depth, level_pc,
                   next_level_urls>>

\* The gather is over: lines 141-148.
LevelGathered ==
    /\ level_pc = "gather"
    /\ \A i \in DOMAIN level_tasks : level_tasks[i].pc = "done"
    /\ next_level_urls' = level_extend(level_tasks)
    /\ level_pc' = "returned"
    /\ UNCHANGED <<engine, many, pool, runner, chains, level_urls,
                   level_depth, level_tasks>>

\* The strategy as crawl() lines 62-68 leave it, or stopped, and the
\* CrawlingResult the level is given.
InitLevel ==
    /\ strategy = "BFS"
    /\ max_depth \in 0..MaxDepthBound
    /\ max_pages \in 0..MaxPagesBound
    /\ url_filter = Urls
    /\ visited_urls = reset_state.visited_urls
    /\ failed_urls = reset_state.failed_urls
    /\ current_depth = reset_state.current_depth
    /\ pages_crawled = reset_state.pages_crawled
    /\ is_running \in BOOLEAN
    /\ pc = "idle"
    /\ start_url = 1
    /\ queue = <<>>
    /\ queued_urls = {}
    /\ stack = <<>>
    /\ cur = NoCur
    /\ result = create_crawling_result(1, "BFS", {}, {}, 0)
    /\ web = [u \in Urls |-> Unknown]
    /\ attempts = <<>>
    /\ marks = 0
    /\ stop_called = FALSE
    /\ runs = 0
    /\ first_run = [pages |-> <<>>, clean |-> FALSE]
    /\ NoManyRunner
    /\ NoPool
    /\ NoRunner
    /\ NoChains
    /\ NoLevel

NextLevel ==
    \/ \E urls \in LevelLists, depth \in 0..MaxDepthBound :
           LevelCrawl(urls, depth)
    \/ \E i \in 1..MaxLevelUrls : LevelScrapeOk(i)
    \/ \E i \in 1..MaxLevelUrls : LevelScrapeFail(i)
    \/ LevelGathered

SpecLevel == InitLevel /\ [][NextLevel]_vars



----------------------------------------------------------------------------
\* Notions the properties are stated with.

AttemptedUrls == {attempts[i].url : i \in DOMAIN attempts}

QueueUrls == [i \in DOMAIN queue |-> queue[i][1]]

LinksOf(u) == UNION {Range(links) : links \in web[u]}

\* The nodes of the link graph: the seed and every URL some page links to.
GraphNodes == {start_url} \cup UNION {LinksOf(u) : u \in Urls}

\* The nodes at most k hops from the nodes of S.
RECURSIVE ReachWithin(_, _)
ReachWithin(S, k) ==
    IF k = 0 THEN S
    ELSE ReachWithin(S \cup UNION {LinksOf(u) : u \in S}, k - 1)

\* The candidates a DFS run still has to descend into, next one first.
RECURSIVE DfsPending(_)
DfsPending(stk) ==
    IF stk = <<>> THEN <<>>
    ELSE stk[Len(stk)].links \o DfsPending(Front(stk))

Pending == IF strategy = "BFS" THEN QueueUrls ELSE DfsPending(stack)

\* This step is the completion of a scrape that failed.
ScrapeFailedStep ==
    /\ pc = "fetch"
    /\ Len(attempts') = Len(attempts) + 1
    /\ ~attempts'[Len(attempts')].ok

Ratio(n, d) == IF d = 0 THEN <<0, 1>> ELSE <<n, d>>

----------------------------------------------------------------------------
\* C1: in every state of a BFS or DFS crawl, pages_crawled is at most
\* max_pages, whatever the link graph and whichever scrapes fail.
C1_PagesWithinBudget == pages_crawled <= max_pages

\* C1 witness: a run with a failed scrape that the page budget ended while
\* candidates were still queued.
C1_Witness ==
    /\ pc = "done"
    /\ pages_crawled = max_pages
    /\ max_pages > 1
    /\ ~stop_called
    /\ queue # <<>>
    /\ failed_urls # {}

\* C2: no scrape is started at a depth above max_depth: neither the scrape
\* awaited now nor any completed one was deeper, no queued candidate is
\* deeper, and no page at depth max_depth has a frame descending into its
\* links.
C2_DepthWithinBound ==
    /\ pc = "fetch" => cur[2] <= max_depth
    /\ \A i \in DOMAIN attempts : attempts[i].depth <= max_depth
    /\ \A i \in DOMAIN queue : queue[i][2] <= max_depth
    /\ \A i \in DOMAIN stack : stack[i].depth < max_depth

\* C2 witness: the run is over within budget and unstopped, and a page
\* scraped at depth max_depth links to a URL that was never attempted.
C2_Witness ==
    /\ pc = "done"
    /\ ~stop_called
    /\ pages_crawled < max_pages
    /\ max_depth > 0
    /\ \E i \in OkAttempts :
        /\ attempts[i].depth = max_depth
        /\ LinksOf(attempts[i].url) \ AttemptedUrls # {}

\* C3: the result a DFS crawl returns holds each URL at most once in its
\* scraped pages.
C3_DfsPagesUnique ==
    (strategy = "DFS" /\ pc = "done") => NoDuplicates(result.scraped_pages)

\* C4: the result of a BFS crawl holds each URL at most once in its scraped
\* pages.
C4_BfsPagesUnique ==
    (strategy = "BFS" /\ pc # "idle") => NoDuplicates(result.scraped_pages)

\* C4 witness: a finished BFS crawl in which two different scraped pages link
\* to the same third scraped URL.
C4_Witness ==
    /\ strategy = "BFS"
    /\ pc = "done"
    /\ \E p, q, u \in Range(result.scraped_pages) :
        /\ p # q /\ p # u /\ q # u
        /\ u \in LinksOf(p)
        /\ u \in LinksOf(q)

\* C5: a URL whose scrape has completed, with a page or with an error, is
\* not queued, not being scraped and not scraped a second time in the run.
\* Stated for the BFS engine; DFS scrapes even a visited URL again (C3).
C5_NoSecondAttempt ==
    strategy = "BFS" =>
        /\ \A i, j \in DOMAIN attempts : i # j => attempts[i].url # attempts[j].url
        /\ pc = "fetch" => cur[1] \notin AttemptedUrls
        /\ Range(QueueUrls) \cap AttemptedUrls = {}

\* C6: in a BFS crawl queued_urls is exactly the set of URLs in the queue,
\* no URL is in the queue twice, and no URL is both visited and queued.
C6_QueuedIsFrontier ==
    strategy = "BFS" =>
        /\ queued_urls = Range(QueueUrls)
        /\ NoDuplicates(QueueUrls)
        /\ visited_urls \cap queued_urls = {}

\* C6 witness: a BFS crawl awaits the scrape of a URL that two visited pages
\* link to, so that its second enqueue was suppressed, with another
\* candidate still queued.
C6_Witness ==
    /\ strategy = "BFS"
    /\ pc = "fetch"
    /\ queue # <<>>
    /\ \E p, q \in visited_urls :
        /\ p # q
        /\ cur[1] \in LinksOf(p) \cap LinksOf(q)

\* C7: when a scrape fails the URL is in the failed set afterwards, crawl()
\* goes on (it awaits the next scrape or returns), and the next pending
\* candidate (head of the BFS queue, next DFS sibling) is the one scraped
\* next unless the run was stopped.
C7_FailureNotFatal ==
    [][ScrapeFailedStep =>
         /\ cur[1] \in failed_urls'
         /\ IF Pending # <<>> /\ is_running
            THEN pc' = "fetch" /\ cur'[1] = Head(Pending)
            ELSE pc' = "done"]_vars

\* C7 witness: a DFS crawl in which a scrape failed and the sibling after it
\* was scraped next.
C7_Witness ==
    /\ strategy = "DFS"
    /\ \E i \in FailedAttempts :
        /\ i + 1 \in DOMAIN attempts
        /\ attempts[i].depth > 0
        /\ attempts[i + 1].depth = attempts[i].depth
        /\ attempts[i + 1].url # attempts[i].url

\* C8: the returned result lists in failed_urls exactly the URLs whose
\* scrape failed, and its success_rate is successes / (successes + failures).
C8_FailedUrlsReported ==
    pc = "done" =>
        /\ Range(result.failed_urls) = {attempts[i].url : i \in FailedAttempts}
        /\ SameFraction(success_rate(result),
                        Ratio(Cardinality(OkAttempts), Len(attempts)))

\* C9: the end timestamp is unset while the traversal runs and has been set
\* exactly once when crawl() is over, however the traversal ended.
C9_CompletedExactlyOnce ==
    /\ pc = "fetch" => (marks = 0 /\ result.end_time = "None")
    /\ pc \in {"done", "cancelled"} => (marks = 1 /\ result.end_time = "set")

\* C10: a BFS crawl that was not stopped, in which no scrape failed and whose
\* max_pages is at least the number of nodes, scraped exactly the nodes at
\* most max_depth hops from the seed, each once.
C10_BfsCoversReachable ==
    (/\ strategy = "BFS"
     /\ pc = "done"
     /\ failed_urls = {}
     /\ ~stop_called
     /\ max_pages >= Cardinality(GraphNodes)) =>
        /\ Range(result.scraped_pages) = ReachWithin({start_url}, max_depth)
        /\ NoDuplicates(result.scraped_pages)

\* C10 witness: such a crawl scraped at least two pages and left a node of
\* the graph unscraped, beyond max_depth.
C10_Witness ==
    /\ strategy = "BFS"
    /\ pc = "done"
    /\ failed_urls = {}
    /\ ~stop_called
    /\ max_pages >= Cardinality(GraphNodes)
    /\ Len(result.scraped_pages) >= 2
    /\ GraphNodes \ Range(result.scraped_pages) # {}

\* a is l with some elements left out, the others in l's order.
RECURSIVE IsSubsequence(_, _)
IsSubsequence(a, l) ==
    IF a = <<>> THEN TRUE
    ELSE IF l = <<>> THEN FALSE
    ELSE IF Head(a) = Head(l) THEN IsSubsequence(Tail(a), Tail(l))
    ELSE IsSubsequence(a, Tail(l))

\* The BFS candidates not yet scraped, the one being scraped first.
BfsFrontier == (IF pc = "fetch" THEN <<cur>> ELSE <<>>) \o queue

\* The depths at which a BFS crawl has scraped and will scrape, in order.
BfsDepths ==
    [i \in DOMAIN attempts |-> attempts[i].depth]
        \o [i \in DOMAIN BfsFrontier |-> BfsFrontier[i][2]]

NonDecreasing(s) == \A i, j \in DOMAIN s : i < j => s[i] <= s[j]

\* This step is the completion of a BFS scrape that returned a page.
BfsScrapeOkStep ==
    /\ strategy = "BFS"
    /\ pc = "fetch"
    /\ Len(attempts') = Len(attempts) + 1
    /\ attempts'[Len(attempts')].ok

\* What the step appended to the queue.
BfsEnqueuedByStep ==
    SubSeq(BfsFrontier', Len(queue) + 1, Len(BfsFrontier'))

\* C11: a BFS crawl scrapes in non-decreasing depth order (the completed
\* scrapes, the awaited one and the queued candidates, in this order, never
\* step down in depth), and the step that reads a page leaves the queued
\* candidates in place and appends behind them links of that page, one level
\* deeper, in the order the page lists them.
C11_BfsDepthOrder ==
    /\ [](strategy = "BFS" => NonDecreasing(BfsDepths))
    /\ [][BfsScrapeOkStep =>
            /\ Len(BfsFrontier') >= Len(queue)
            /\ SubSeq(BfsFrontier', 1, Len(queue)) = queue
            /\ IsSubsequence([i \in DOMAIN BfsEnqueuedByStep |->
                                  BfsEnqueuedByStep[i][1]],
                             CHOOSE l \in web'[cur[1]] : TRUE)
            /\ \A i \in DOMAIN BfsEnqueuedByStep :
                   BfsEnqueuedByStep[i][2] = cur[2] + 1]_vars

\* C11 witness: a finished BFS crawl scraped the seed, then its two links in
\* page order at depth 1, then a page at depth 2.
C11_Witness ==
    /\ strategy = "BFS"
    /\ pc = "done"
    /\ Len(attempts) >= 4
    /\ \E l \in web[start_url] :
        /\ Len(l) = 2
        /\ l[1] # l[2]
        /\ attempts[2].url = l[1] /\ attempts[2].depth = 1
        /\ attempts[3].url = l[2] /\ attempts[3].depth = 1
    /\ attempts[4].depth = 2

\* The links of the seed's page, once it was scraped.
SeedLinks == CHOOSE l \in web[start_url] : TRUE

\* The run is over, was not stopped, no scrape failed, max_depth is 1 and the
\* seed's page has k distinct links, none to the seed, with max_pages >= k+1.
OneLevelScenario ==
    /\ pc = "done"
    /\ ~stop_called
    /\ FailedAttempts = {}
    /\ max_depth = 1
    /\ web[start_url] # Unknown
    /\ NoDuplicates(SeedLinks)
    /\ start_url \notin Range(SeedLinks)
    /\ max_pages >= Len(SeedLinks) + 1

\* C12: after such a BFS or DFS run the result holds exactly k+1 scraped
\* pages, the seed and then its k links, no failed URL, and its success_rate
\* is 1, whatever the pages of the links contain.
C12_OneLevelCrawl ==
    OneLevelScenario =>
        /\ Len(result.scraped_pages) = Len(SeedLinks) + 1
        /\ Range(result.scraped_pages) = {start_url} \cup Range(SeedLinks)
        /\ result.failed_urls = <<>>
        /\ SameFraction(success_rate(result), <<1, 1>>)

\* C12 witness: a DFS run of the scenario with k = 2 in which the first child
\* links to a URL that is neither the seed nor one of the seed's links.
C12_Witness ==
    /\ OneLevelScenario
    /\ strategy = "DFS"
    /\ Len(SeedLinks) = 2
    /\ LinksOf(SeedLinks[1]) \ ({start_url} \cup Range(SeedLinks)) # {}

\* C13: a BFS or DFS run with max_pages = 1 whose scrape of the seed returned
\* a page ends with exactly one scraped page, the seed, however many links
\* the seed's page has.
C13_SinglePageBudget ==
    (/\ pc = "done"
     /\ max_pages = 1
     /\ attempts # <<>>
     /\ attempts[1].ok) =>
        result.scraped_pages = <<start_url>>

\* C13 witness: such a run, not stopped and allowed to go deeper, whose seed
\* page has two distinct links to other URLs.
C13_Witness ==
    /\ pc = "done"
    /\ max_pages = 1
    /\ max_depth >= 1
    /\ ~stop_called
    /\ attempts # <<>>
    /\ attempts[1].ok
    /\ Cardinality(LinksOf(start_url) \ {start_url}) = 2
    /\ result.scraped_pages = <<start_url>>

\* The links a DFS crawl has extracted and not yet descended into.
StackUrls == UNION {Range(stack[i].links) : i \in DOMAIN stack}

\* C14: a discovered link the url_filter rejects is never a candidate
\* (queued by BFS, kept by a DFS frame), never scraped below the seed, and,
\* unless it is the seed itself, never in the visited or the failed set.
C14_RejectedNeverAdmitted ==
    \A u \in Urls \ url_filter :
        /\ \A i \in DOMAIN queue : queue[i][2] > 0 => queue[i][1] # u
        /\ u \notin StackUrls
        /\ pc = "fetch" /\ cur[2] > 0 => cur[1] # u
        /\ \A i \in DOMAIN attempts :
               attempts[i].depth > 0 => attempts[i].url # u
        /\ u # start_url => u \notin visited_urls \cup failed_urls

CrawlCallStep == pc = "idle" /\ pc' # "idle"

\* The run is over, was not stopped and no scrape failed.
CleanRun == pc = "done" /\ ~stop_called /\ FailedAttempts = {}

\* C16: every call of crawl(), on a used engine as on a new one, starts from
\* empty visited and failed sets, zero counters and an empty result; and a
\* second crawl() on the engine returns the scraped pages the first one
\* returned on the then new engine, when neither run was stopped or met a
\* failing scrape.
C16_RerunLikeFresh ==
    /\ [][CrawlCallStep =>
            /\ visited_urls' = {}
            /\ failed_urls' = {}
            /\ pages_crawled' = 0
            /\ current_depth' = 0
            /\ result'.scraped_pages = <<>>
            /\ result'.visited_urls = <<>>
            /\ result'.failed_urls = <<>>]_vars
    /\ []((runs = 1 /\ first_run.clean /\ CleanRun) =>
              result.scraped_pages = first_run.pages)

\* C16 witness: the second run on an engine is over, unstopped and without
\* failure, as the first one was, and scraped more than the seed.
C16_Witness ==
    /\ runs = 1
    /\ first_run.clean
    /\ CleanRun
    /\ Len(result.scraped_pages) >= 2

\* C17: a BFS or DFS crawl() that is called and not cancelled, all of whose
\* scrapes terminate, eventually returns its completed result, for every
\* link graph (cycles and failing pages included), max_depth and max_pages.
C17_CrawlReturns == <>(pc = "done" /\ result.end_time = "set")

\* C17 witness: a crawl has returned after it scraped a page that links back
\* to the seed and after a scrape failed.
C17_Witness ==
    /\ pc = "done"
    /\ ~stop_called
    /\ FailedAttempts # {}
    /\ \E i \in OkAttempts :
        /\ attempts[i].depth > 0
        /\ start_url \in LinksOf(attempts[i].url)

\* The seeds whose engine and fetcher are built and complete the traversal
\* without raising.
GoodSeeds ==
    {i \in DOMAIN start_urls : ~factory_raises[i] /\ ~traversal_raises[i]}

\* The children whose coordinator was stopped, fetcher included, in the
\* finally block of their task: a task that ended with a factory's exception
\* or the constructor's TypeError did not get there.
StopCompleted == {i \in TaskOver : gathered[i] \notin Exceptions}

C19_FailureIsolated ==
    (/\ run_pc \in {"returned", "raised"}
     /\ progress_callback # "raises"
     /\ DOMAIN start_urls \ GoodSeeds # {}) =>
        /\ run_pc = "returned"
        /\ Range(many_results) \cap (DOMAIN start_urls \ GoodSeeds) = {}
        /\ GoodSeeds \subseteq Range(many_results)
        /\ semaphore = max_concurrent

\* C20: the list run() returns holds exactly one record for each seed whose
\* engine and fetcher complete the traversal without raising, in the order
\* of start_urls.
C20_OneRecordPerGoodSeed ==
    run_pc = "returned" => many_results = SetToSeq(GoodSeeds)

\* The seeds whose traversal has completed and returned its record.
CompletedTraversals == {i \in TaskOver : gathered[i] \notin Exceptions}

\* C21: with a progress callback set, the callback is called once for each
\* traversal that completes, and its n-th call is given n records: those
\* completed before and the new one.
C21_CallbackPerCompletion ==
    /\ \A n \in DOMAIN callback_calls : Len(callback_calls[n]) = n
    /\ (run_pc \in {"returned", "raised"} /\ progress_callback # "none") =>
           Len(callback_calls) = Cardinality(CompletedTraversals)

\* This step is a call of AsyncManyRunner.stop().
ManyStopStep == Len(stop_outcomes') = Len(stop_outcomes) + 1

InProgress == {p \in Procs : procs[p].outcome = "pending"}

\* C23: no two operations of one BrowserManager are in progress at the same
\* time: while one is suspended at an await, no other one has begun.
C23_OneOperationAtATime == Cardinality(InProgress) <= 1

\* The step is task p calling the pool operation op.
Calls(p, op) ==
    /\ ops_begun' = ops_begun + 1
    /\ last_caller' = p
    /\ procs'[p].op = op

\* The create_instance(name) calls that are in progress.
Creating(name) ==
    {q \in Tasks : /\ procs[q].op = "create"
                   /\ procs[q].pc = "starting"
                   /\ procs[q].name = name}

\* C24: a create_instance(name) called while the name is in the pool, or
\* while another create_instance(name) is in progress, raises the
\* duplicate-name error and changes nothing in the pool; so no two handles
\* made for one name are started together (unless stop() was called on one).
C24_DuplicateRejected ==
    /\ [](\A h1, h2 \in DOMAIN inst_name :
            (/\ h1 # h2
             /\ inst_name[h1] = inst_name[h2]
             /\ inst_started[h1] /\ inst_started[h2])
            => (h1 \in stop_calls \/ h2 \in stop_calls))
    /\ [][\A p \in Tasks :
            (/\ Calls(p, "create")
             /\ \/ procs'[p].name \in DOMAIN instances
                \/ Creating(procs'[p].name) # {})
            => /\ procs'[p].outcome = "ValueError"
               /\ UNCHANGED <<instances, instance_configs,
                              instance_created_at, instance_last_used,
                              inst_started, inst_open, handles>>]_vars

\* C25: get_instance(name) of a name in the pool returns the name's handle
\* and changes nothing of the pool but last_used[name], which becomes the
\* time of the call; of a name not in the pool it raises the not-found
\* error and changes nothing.
C25_GetTouchesLastUsedOnly ==
    [][\A p \in Tasks :
         Calls(p, "get") =>
           LET name == procs'[p].name IN
           /\ UNCHANGED <<pool_is_running, instances, instance_configs,
                          instance_created_at, inst_started, inst_open,
                          handles, sweep_todo>>
           /\ \A q \in Procs \ {p} : procs'[q] = procs[q]
           /\ IF name \in DOMAIN instances
              THEN /\ procs'[p].outcome = "returned"
                   /\ procs'[p].inst = instances[name]
                   /\ DOMAIN instance_last_used' = DOMAIN instance_last_used
                   /\ instance_last_used'[name] = now
                   /\ \A n \in DOMAIN instance_last_used \ {name} :
                          instance_last_used'[n] = instance_last_used[n]
              ELSE /\ procs'[p].outcome = "KeyError"
                   /\ UNCHANGED instance_last_used]_vars

\* A get_instance() returned the handle of a name created earlier, another
\* name being in the pool and another operation being in progress.
C25_Witness ==
    \E p \in Tasks :
        /\ procs[p].op = "get" /\ procs[p].outcome = "returned"
        /\ procs[p].name \in DOMAIN instances
        /\ instance_last_used[procs[p].name]
              > instance_created_at[procs[p].name]
        /\ DOMAIN instances = Names
        /\ InProgress # {}

\* The step ends a remove_instance() call of task p.
RemoveReturns(p) ==
    /\ procs'[p].op = "remove" /\ procs'[p].pc = "idle"
    /\ \/ Calls(p, "remove")
       \/ procs[p].op = "remove" /\ procs[p].pc = "stopping"

\* C26: remove_instance(name) never raises, whether the name is in the pool
\* or not and whether or not another removal of the name overlaps it, the
\* sweep's included; when it ends the name is in none of the four maps.
C26_RemoveIdempotent ==
    /\ [](procs[Sweeper].outcome # "KeyError")
    /\ [][\A p \in Tasks :
            RemoveReturns(p) =>
              /\ procs'[p].outcome = "returned"
              /\ procs'[p].name \notin
                    DOMAIN instances' \cup DOMAIN instance_configs'
                    \cup DOMAIN instance_created_at'
                    \cup DOMAIN instance_last_used']_vars

\* The step ends a restart_instance() call of task p that found its name in
\* the pool.
RestartEnds(p) ==
    /\ procs[p].op = "restart" /\ procs[p].outcome = "pending"
    /\ procs'[p].pc = "idle"

\* C27: restart_instance(name) of a name not in the pool raises the
\* not-found error and changes nothing; of a name in the pool it returns
\* with the name still in the pool, mapped to the handle it restarted, that
\* handle started, and created_at and last_used both at the time of the
\* return, also when a removal of the name overlaps it.
C27_RestartInPlace ==
    [][\A p \in Tasks :
         /\ (Calls(p, "restart") /\ procs'[p].name \notin DOMAIN instances)
            => /\ procs'[p].outcome = "KeyError"
               /\ UNCHANGED <<instances, instance_configs,
                              instance_created_at, instance_last_used,
                              inst_started, inst_open>>
         /\ RestartEnds(p)
            => LET name == procs[p].name IN
               /\ procs'[p].outcome = "returned"
               /\ name \in DOMAIN instances'
               /\ instances'[name] = procs[p].inst
               /\ inst_started'[procs[p].inst]
               /\ instance_created_at'[name] = now
               /\ instance_last_used'[name] = now]_vars

\* The step ends a stop_all_instances() call of task p.
StopAllEnds(p) ==
    /\ procs'[p].op = "stop_all" /\ procs'[p].pc = "idle"
    /\ \/ Calls(p, "stop_all")
       \/ procs[p].op = "stop_all" /\ procs[p].pc = "gathering"

\* C28: stop_all_instances() calls stop() on every handle that is in the
\* pool when it is called, raises nothing, whatever the handles' stop() calls
\* meet, and all four maps are empty when it returns.
C28_StopAllClears ==
    [][\A p \in Tasks :
         /\ Calls(p, "stop_all") => Range(instances) \subseteq stop_calls'
         /\ StopAllEnds(p)
            => /\ procs'[p].outcome = "returned"
               /\ DOMAIN instances' = {}
               /\ DOMAIN instance_configs' = {}
               /\ DOMAIN instance_created_at' = {}
               /\ DOMAIN instance_last_used' = {}]_vars

\* stop_all_instances() has returned after stopping two handles, the
\* closing of one of which failed.
C28_Witness ==
    \E p \in Tasks :
        /\ procs[p].op = "stop_all" /\ procs[p].outcome = "returned"
        /\ Cardinality(stop_calls) = 2
        /\ \E h \in stop_calls : inst_started[h]
        /\ \E h \in stop_calls : ~inst_started[h]
        /\ DOMAIN instances = {}

\* C29: once a sweep pass is over, every handle that was idle for longer
\* than max_idle_time or older than max_lifetime when the pass began has had
\* stop() called on it and is out of the pool.
C29_SweepRemovesExpired ==
    procs[Sweeper].pc = "sleeping" =>
        \A h \in sweep_listed :
            h \in stop_calls /\ h \notin Range(instances)

\* A step of the sweep task, or of time: no task takes part in it.
SweepStep == ops_begun' = ops_begun /\ \A p \in Tasks : procs'[p] = procs[p]

\* C30: a get_instance() called before the handle's idle threshold elapsed
\* sets the handle's last-used time to the time of the call, and the sweep
\* does not remove a handle whose last-used time is that of such a call
\* unless the handle is expired again when the sweep removes it; a pass in
\* progress when get_instance() was called does not either.
C30_TimelyGetSurvivesSweep ==
    [][/\ \A p \in Tasks :
            (Calls(p, "get") /\ procs'[p].outcome = "returned")
            => instance_last_used'[procs'[p].name] = now
       /\ \A name \in DOMAIN instances :
            (/\ SweepStep
             /\ name \notin DOMAIN instances'
             /\ <<instances[name], instance_last_used[name]>>
                   \in timely_gets)
            => expired(name, now)]_vars

\* The step ends a BrowserManager.stop() call of task p.
PoolStopEnds(p) ==
    /\ procs'[p].op = "stop" /\ procs'[p].pc = "idle"
    /\ \/ Calls(p, "stop")
       \/ procs[p].op = "stop" /\ procs[p].outcome = "pending"

\* C31: when BrowserManager.stop() returns, whatever the pool was doing
\* when it was called, it has raised nothing, the pool is empty, stop() has
\* been called on every handle the pool held, and the sweep task is over
\* unless a start() came since; a stop() of a pool that is not running
\* calls no handle's stop().
C31_PoolStopShutsDown ==
    [][\A p \in Tasks :
         /\ PoolStopEnds(p)
            => /\ procs'[p].outcome = "returned"
               /\ Range(instances) \subseteq stop_calls'
               /\ DOMAIN instances' = {}
               /\ DOMAIN instance_configs' = {}
               /\ DOMAIN instance_created_at' = {}
               /\ DOMAIN instance_last_used' = {}
               /\ ~pool_is_running' => procs'[Sweeper].pc = "off"
         /\ (Calls(p, "stop") /\ ~pool_is_running)
            => UNCHANGED <<stop_calls, inst_started, inst_open>>]_vars

\* The step is task p calling op on the AsyncRunner.
RunnerCalls(p, op) ==
    /\ runner_ops' = runner_ops + 1
    /\ runner_caller' = p
    /\ runner_procs'[p].op = op

\* No start() or stop() of the AsyncRunner is in progress.
RunnerQuiet == \A q \in RunnerTasks : runner_procs[q].pc = "idle"

\* C32: a start() called on a started AsyncRunner, and a stop() called on
\* one that is not started, no other call being in progress, returns without
\* raising and changes nothing: no browser is launched, no teardown is run.
C32_RunnerIdempotent ==
    [][\A p \in RunnerTasks :
         (/\ RunnerQuiet
          /\ \/ RunnerCalls(p, "start") /\ runner_is_started
             \/ RunnerCalls(p, "stop") /\ ~runner_is_started)
         => /\ runner_procs'[p].outcome = "returned"
            /\ UNCHANGED <<runner_is_started, scraper_is_started,
                           browser_is_started, context, current_page,
                           browsers_open, launches, teardowns>>]_vars

\* Four calls were made one after the other, start() and stop() each more
\* than once or repeated: one launch and one teardown in all.
C32_Witness ==
    /\ RunnerQuiet
    /\ runner_ops = 4
    /\ launches = 1 /\ teardowns = 1
    /\ ~runner_is_started /\ browsers_open = 0
    /\ \A q \in RunnerTasks : runner_procs[q].outcome = "returned"

\* C33: once stop() has returned, and until start() is called again, the
\* AsyncRunner is not started and no browser of its scraper is open, also
\* when stop() was called while a start() was still launching the browser.
C33_StopCancelsStartup ==
    stop_returned => ~runner_is_started /\ browsers_open = 0

\* The tasks that are inside the teardown of the scraper.
TearingDown == {p \in RunnerTasks : runner_procs[p].pc = "tearing_down"}

C38_NoLeakedBrowser ==
    \A h \in 1..handles :
        inst_started[h] => h \in Range(instances) \/ h \in stop_calls

\* C34: every FilterChain whose operator is "not" has exactly one child,
\* whatever add_filter and remove_filter calls were made on it.
C34_NotHasOneChild ==
    \A f \in DOMAIN filter_objs :
        filter_objs[f].operator = "not" => Len(filter_objs[f].filters) = 1

\* f is not a chain of the operator op, so that combining it with op keeps
\* it as one child.
Plain(f, op) == filter_objs[f].operator # op

\* The object f was built as x op y, for op one of "and" and "or".
Combined(f, op, x, y) == made[f] = Made(op, x, y)

\* C35: with no add_filter or remove_filter call made, an object built as
\* (A & B) & C or as A & (B & C) from filters A, B, C that are not AND
\* chains is one AND chain whose children are A, B, C in order; likewise
\* for |.
C35_AssociativeFlattening ==
    mutations = 0 =>
        \A op \in {"and", "or"} :
          \A f, g \in DOMAIN filter_objs : \A A, B, C \in DOMAIN filter_objs :
            (/\ Plain(A, op) /\ Plain(B, op) /\ Plain(C, op)
             /\ \/ Combined(g, op, A, B) /\ Combined(f, op, g, C)
                \/ Combined(g, op, B, C) /\ Combined(f, op, A, g))
            => filter_objs[f] = FilterChain(<<A, B, C>>, op)

\* C36: for all filter objects A and B, leaves or chains of any operator,
\* emptied chains included, and every input u, (A & B).run(u) and
\* (B & A).run(u) are the same truth value.
C36_AndCommutes ==
    \A A, B \in DOMAIN filter_objs : \A u \in FilterUrls :
        LET h1 == Append(filter_objs, AndOf(filter_objs, A, B))
            h2 == Append(h1, AndOf(h1, B, A))
        IN  run(h2, Len(h1), u) = run(h2, Len(h2), u)

\* Both A & B and B & A were built, A being a chain that remove_filter
\* emptied, and both reject an input that B rejects.
C36_Witness ==
    \E f, g, A, B \in DOMAIN filter_objs :
        /\ Combined(f, "and", A, B) /\ Combined(g, "and", B, A)
        /\ IsChain(filter_objs, A) /\ filter_objs[A].filters = <<>>
        /\ chain_outcome = "returned" /\ mutations > 0
        /\ \E u \in FilterUrls :
               /\ ~run(filter_objs, B, u)
               /\ ~run(filter_objs, f, u) /\ ~run(filter_objs, g, u)

\* C37: for every filter object A, leaf or chain of any operator, and every
\* input u, (~(~A)).run(u) equals A.run(u).
C37_DoubleNegation ==
    \A A \in DOMAIN filter_objs : \A u \in FilterUrls :
        LET h1 == Append(filter_objs, InvertOf(filter_objs, A))
            h2 == Append(h1, InvertOf(h1, Len(h1)))
        IN  run(h2, Len(h2), u) = run(filter_objs, A, u)

\* ~(~A) was built for a chain A, and it rejects an input that A rejects.
C37_Witness ==
    \E f, g, A \in DOMAIN filter_objs :
        /\ made[g] = Made("not", A, 0) /\ made[f] = Made("not", g, 0)
        /\ IsChain(filter_objs, A)
        /\ \E u \in FilterUrls :
               ~run(filter_objs, f, u) /\ ~run(filter_objs, A, u)

\* C40: when _bfs_level_crawl has returned, pages_crawled is at most
\* max_pages and no URL is in the scraped pages of the CrawlingResult more
\* than once.
C40_LevelKeepsBudgetAndDedup ==
    level_pc = "returned" =>
        /\ pages_crawled <= max_pages
        /\ NoDuplicates(result.scraped_pages)

====
